---------------------------- MODULE Spec2Model ----------------------------
(***************************************************************************)
(* Model of the gomem library (default build: single-tree treap index,     *)
(* pooled region factory, recyclable memory enabled).                      *)
(*                                                                         *)
(*   - the free-region index  (allocator.go)                               *)
(*   - the Region and the Scalable allocator (buddy_disable_rm.go)         *)
(*   - the pooled region factory (buddy_disable.go)                        *)
(*                                                                         *)
(* Block objects are modelled as entries of a function from block          *)
(* identities to records; a Go *Block is a block identity, nil is NIL.     *)
(***************************************************************************)
EXTENDS Integers, Sequences, FiniteSets, TLC

NIL == 0

NONE == 0 - 1

(***************************************************************************)
(* Bounds of the model.                                                    *)
(***************************************************************************)
\* Size of the single Allocator explored by SpecA.
AllocSize == 5

\* Size of the single Allocator explored by SpecH.
TreapSize == 6

\* Number of Malloc, Borrow, Read, NextN and NewScalableMemoryAllocator calls
\* made after the first NewScalableMemoryAllocator.
MaxCalls == 3

\* Number of Free calls on the Scalable that free a slice only in part.
MaxCuts == 1

\* The largest number of segments of the RecyclableMemory.
MaxSegs == 3

\* The Buddy has 2^BuddyLevels units (buddy.go has 2^19).
BuddyLevels == 3

\* The number of threads that share the Buddy.
NThreads == 2

\* The largest number of allocations of the Buddy that a thread holds.
MaxHeld == 2

\* The number of Buddies that buddyPool.New makes.
MaxBuddies == 2

\* The number of Regions of the buddy-backed factory that are in use.
MaxRegions == 3

\* The largest number of bytes of a segment of the buffer that is read.
MaxSegLen == 3

\* Distance between the start addresses of two Regions (no Region is larger).
Stride == 8388608

(***************************************************************************)
(* mem.go : constants                                                      *)
(***************************************************************************)
MaxBlockSize == 4194304

MinPowerOf2 == 10

defaultBufSize == 16384

(***************************************************************************)
(* Inputs.                                                                 *)
(***************************************************************************)
\* Sizes given to NewScalableMemoryAllocator.
InitSizes == {1024, 3000}

\* Sizes given to Malloc and Borrow.
RequestSizes == {1024, 2048, 3000, MaxBlockSize, MaxBlockSize + 1}

\* Offsets at which a live slice is cut when a sub-slice of it is freed.
Cuts == {1024}

\* The sizes asked of Read; the reader returns 0 bytes, a cut or all of them.
ReadSizes == {1024, 3000}

\* Sizes given to Malloc where Read and FreeRest are called too, and to NextN.
SmallSizes == {1024, 3000, MaxBlockSize + 1}

(***************************************************************************)
(* Small helpers.                                                          *)
(***************************************************************************)
Range(f) == {f[x] : x \in DOMAIN f}

RECURSIVE SumSeq(_)
SumSeq(s) == IF s = <<>> THEN 0 ELSE Head(s) + SumSeq(Tail(s))

\* The element of a set of one element.
TheOne(S) == CHOOSE x \in S : TRUE

SetMin(S) == CHOOSE x \in S : \A y \in S : x <= y

(***************************************************************************)
(* allocator.go : Block, Allocator                                         *)
(***************************************************************************)
\* &Block{Start: s, End: e}
Block(s, e) == [Start |-> s, End |-> e, parent |-> NIL, left |-> NIL, right |-> NIL]

\* The identity a freshly allocated Block object gets: the least unused one.
NewBlockId(a) == SetMin({i \in 1..(Cardinality(DOMAIN a.blk) + 1) : i \notin DOMAIN a.blk})

NewAllocator(size) ==
    [blk |-> (1 :> Block(0, size)), sizeTree |-> 1, pool |-> NIL, Size |-> size]

BlockSize(a, b) == a.blk[b].End - a.blk[b].Start

rotateDone(a, p, x, y) ==
    LET a1 == [a EXCEPT !.blk[x].parent = p]
    IN  IF p = NIL THEN [a1 EXCEPT !.sizeTree = x]
        ELSE IF a1.blk[p].left = y THEN [a1 EXCEPT !.blk[p].left = x]
        ELSE [a1 EXCEPT !.blk[p].right = x]

rotateLeft(a, x) ==
    LET p == a.blk[x].parent
        y == a.blk[x].right
        b == a.blk[y].left
        a1 == [a EXCEPT !.blk[y].left = x, !.blk[x].parent = y, !.blk[x].right = b]
        a2 == IF b # NIL THEN [a1 EXCEPT !.blk[b].parent = x] ELSE a1
    IN  rotateDone(a2, p, y, x)

rotateRight(a, y) ==
    LET p == a.blk[y].parent
        x == a.blk[y].left
        b == a.blk[x].right
        a1 == [a EXCEPT !.blk[x].right = y, !.blk[y].parent = x, !.blk[y].left = b]
        a2 == IF b # NIL THEN [a1 EXCEPT !.blk[b].parent = y] ELSE a1
    IN  rotateDone(a2, p, x, y)

\* Block.insert: returns the allocator state and the returned *Block.
RECURSIVE insert(_, _, _)
insert(a, b, block) ==
    IF b = NIL THEN [a |-> a, ret |-> block]
    ELSE
      LET goLeft == a.blk[block].Start < a.blk[b].Start
          sub == IF goLeft THEN insert(a, a.blk[b].left, block)
                 ELSE insert(a, a.blk[b].right, block)
          a1 == IF goLeft THEN [sub.a EXCEPT !.blk[b].left = sub.ret]
                ELSE [sub.a EXCEPT !.blk[b].right = sub.ret]
          a2 == IF sub.ret # NIL THEN [a1 EXCEPT !.blk[sub.ret].parent = b] ELSE a1
          blockSize == BlockSize(a2, block)
          nodeSize == BlockSize(a2, b)
      IN  IF blockSize < nodeSize /\ block = a2.blk[b].left
            THEN [a |-> rotateRight(a2, b), ret |-> block]
          ELSE IF blockSize < nodeSize /\ block = a2.blk[b].right
            THEN [a |-> rotateLeft(a2, b), ret |-> block]
          ELSE [a |-> a2, ret |-> b]

\* Block.find
RECURSIVE find(_, _, _)
find(a, b, size) ==
    IF b = NIL THEN NIL
    ELSE IF BlockSize(a, b) >= size
      THEN IF BlockSize(a, b) = size THEN b
           ELSE LET left == find(a, a.blk[b].left, size)
                IN  IF left # NIL THEN left ELSE b
    ELSE find(a, a.blk[b].right, size)

\* Block.Walk: the blocks in the order fn is applied to them.
RECURSIVE Walk(_, _)
Walk(a, b) ==
    IF b = NIL THEN <<>>
    ELSE Walk(a, a.blk[b].left) \o <<b>> \o Walk(a, a.blk[b].right)

putBlock(a, block) ==
    [a EXCEPT !.blk[block].right = NIL, !.blk[block].left = NIL,
              !.blk[block].parent = a.pool, !.pool = block]

\* The loop of deleteBlock: rotate block down until it is a leaf.
RECURSIVE rotateToLeaf(_, _)
rotateToLeaf(a, block) ==
    LET l == a.blk[block].left
        r == a.blk[block].right
    IN  IF l = NIL /\ r = NIL THEN a
        ELSE IF r = NIL \/ (l # NIL /\ BlockSize(a, l) > BlockSize(a, r))
          THEN rotateToLeaf(rotateRight(a, block), block)
        ELSE rotateToLeaf(rotateLeft(a, block), block)

deleteBlock(a, block) ==
    LET a1 == rotateToLeaf(a, block)
        p == a1.blk[block].parent
    IN  IF p # NIL
          THEN IF a1.blk[p].left = block THEN [a1 EXCEPT !.blk[p].left = NIL]
               ELSE [a1 EXCEPT !.blk[p].right = NIL]
        ELSE [a1 EXCEPT !.sizeTree = NIL]

Allocator_insert(a, block) ==
    LET r == insert(a, a.sizeTree, block)
    IN  [r.a EXCEPT !.sizeTree = r.ret]

\* Allocator.Allocate: returns the allocator state and the offset.
Allocator_Allocate(a, size) ==
    LET block == find(a, a.sizeTree, size)
    IN  IF block = NIL THEN [a |-> a, offset |-> NONE]
        ELSE LET offset == a.blk[block].Start
                 a1 == deleteBlock(a, block)
             IN  IF BlockSize(a1, block) = size
                   THEN [a |-> putBlock(a1, block), offset |-> offset]
                 ELSE [a |-> Allocator_insert(
                                [a1 EXCEPT !.blk[block].Start = @ + size], block),
                       offset |-> offset]

RECURSIVE findLeftFrom(_, _, _)
findLeftFrom(a, curr, offset) ==
    IF curr = NIL THEN NIL
    ELSE IF a.blk[curr].End = offset THEN curr
    ELSE IF a.blk[curr].End < offset THEN findLeftFrom(a, a.blk[curr].right, offset)
    ELSE findLeftFrom(a, a.blk[curr].left, offset)

\* findLeftAdjacent that looks one byte too far.
findLeftAdjacent_OffByOne(a, offset) == findLeftFrom(a, a.sizeTree, offset + 1)

findLeftAdjacent(a, offset) == findLeftFrom(a, a.sizeTree, offset)

RECURSIVE findRightFrom(_, _, _)
findRightFrom(a, curr, offset) ==
    IF curr = NIL THEN NIL
    ELSE IF a.blk[curr].Start = offset THEN curr
    ELSE IF a.blk[curr].Start > offset THEN findRightFrom(a, a.blk[curr].left, offset)
    ELSE findRightFrom(a, a.blk[curr].right, offset)

\* findRightAdjacent that looks one byte too far.
findRightAdjacent_OffByOne(a, offset) == findRightFrom(a, a.sizeTree, offset + 1)

findRightAdjacent(a, offset) == findRightFrom(a, a.sizeTree, offset)

\* getBlock that leaves the End of a pooled Block as it was.
getBlock_StaleEnd(a, start, end) ==
    IF a.pool = NIL
      THEN LET id == NewBlockId(a)
           IN  [a |-> [a EXCEPT !.blk = @ @@ (id :> Block(start, end))], block |-> id]
    ELSE LET block == a.pool
         IN  [a |-> [a EXCEPT !.pool = a.blk[block].parent,
                              !.blk[block].parent = NIL,
                              !.blk[block].Start = start],
              block |-> block]

\* Allocator.getBlock: returns the allocator state and the *Block.
getBlock(a, start, end) ==
    IF a.pool = NIL
      THEN LET id == NewBlockId(a)
           IN  [a |-> [a EXCEPT !.blk = @ @@ (id :> Block(start, end))], block |-> id]
    ELSE LET block == a.pool
         IN  [a |-> [a EXCEPT !.pool = a.blk[block].parent,
                              !.blk[block].parent = NIL,
                              !.blk[block].Start = start,
                              !.blk[block].End = end],
              block |-> block]

Allocator_Free(a, offset, size) ==
    LET left == findLeftAdjacent(a, offset)
        right == findRightAdjacent(a, offset + size)
    IN  IF left # NIL /\ right # NIL
          THEN LET a1 == deleteBlock(deleteBlock(a, right), left)
                   a2 == [a1 EXCEPT !.blk[left].End = a1.blk[right].End]
               IN  putBlock(Allocator_insert(a2, left), right)
        ELSE IF left = NIL /\ right = NIL
          THEN LET g == getBlock(a, offset, offset + size)
               IN  Allocator_insert(g.a, g.block)
        ELSE IF left # NIL
          THEN LET a1 == deleteBlock(a, left)
               IN  Allocator_insert([a1 EXCEPT !.blk[left].End = offset + size], left)
        ELSE LET a1 == deleteBlock(a, right)
             IN  Allocator_insert([a1 EXCEPT !.blk[right].Start = offset], right)

GetFreeSize(a) ==
    LET w == Walk(a, a.sizeTree)
    IN  SumSeq([i \in 1..Len(w) |-> BlockSize(a, w[i])])

\* Allocator.GetBlocks, each *Block shown as its (Start, End).
GetBlocks(a) ==
    LET w == Walk(a, a.sizeTree)
    IN  [i \in 1..Len(w) |-> [Start |-> a.blk[w[i]].Start, End |-> a.blk[w[i]].End]]

\* Allocator.Find that returns the Start of the root of the tree.
Allocator_Find_Root(a, size) ==
    IF a.sizeTree = NIL THEN NONE ELSE a.blk[a.sizeTree].Start

\* Allocator.Find
Allocator_Find(a, size) ==
    LET block == find(a, a.sizeTree, size)
    IN  IF block = NIL THEN NONE ELSE a.blk[block].Start

(***************************************************************************)
(* allocator_2tree.go : the Allocator of the build tag twotree.  A Block   *)
(* is in two AVL trees, trees.size ordered by (size, Start) and            *)
(* trees.offset ordered by Start.  The names that allocator.go uses too    *)
(* end in 2 here.                                                          *)
(***************************************************************************)
TreeIndexSize == "size"

TreeIndexOffset == "offset"

emptyTree == [left |-> NIL, right |-> NIL, height |-> 0]

emptyTrees == [size |-> emptyTree, offset |-> emptyTree]

\* &Block{Start: s, End: e}
Block2(s, e) == [Start |-> s, End |-> e, trees |-> emptyTrees]

NewAllocator2(size) ==
    [blk |-> (1 :> Block2(0, size)), sizeTree |-> 1, offsetTree |-> 1, pool |-> NIL,
     Size |-> size]

compareBySize(a, x, y) ==
    IF BlockSize(a, x) # BlockSize(a, y) THEN BlockSize(a, x) < BlockSize(a, y)
    ELSE a.blk[x].Start < a.blk[y].Start

compareByOffset(a, x, y) == a.blk[x].Start < a.blk[y].Start

compares(treeIndex, a, x, y) ==
    IF treeIndex = TreeIndexSize THEN compareBySize(a, x, y) ELSE compareByOffset(a, x, y)

getHeight(a, b, treeIndex) == IF b = NIL THEN 0 ELSE a.blk[b].trees[treeIndex].height

getLeftHeight(a, b, treeIndex) == getHeight(a, a.blk[b].trees[treeIndex].left, treeIndex)

getRightHeight(a, b, treeIndex) == getHeight(a, a.blk[b].trees[treeIndex].right, treeIndex)

max(x, y) == IF x >= y THEN x ELSE y

updateHeight(a, b, treeIndex) ==
    [a EXCEPT !.blk[b].trees[treeIndex].height =
                  1 + max(getLeftHeight(a, b, treeIndex), getRightHeight(a, b, treeIndex))]

\* Block.rotateLeft: returns the allocator state and the new root.
rotateLeft2(a, b, treeIndex) ==
    LET newRoot == a.blk[b].trees[treeIndex].right
        a1 == [a EXCEPT !.blk[b].trees[treeIndex].right =
                            a.blk[newRoot].trees[treeIndex].left]
        a2 == [a1 EXCEPT !.blk[newRoot].trees[treeIndex].left = b]
    IN  [a |-> updateHeight(updateHeight(a2, b, treeIndex), newRoot, treeIndex),
         ret |-> newRoot]

\* Block.rotateRight: returns the allocator state and the new root.
rotateRight2(a, b, treeIndex) ==
    LET newRoot == a.blk[b].trees[treeIndex].left
        a1 == [a EXCEPT !.blk[b].trees[treeIndex].left =
                            a.blk[newRoot].trees[treeIndex].right]
        a2 == [a1 EXCEPT !.blk[newRoot].trees[treeIndex].right = b]
    IN  [a |-> updateHeight(updateHeight(a2, b, treeIndex), newRoot, treeIndex),
         ret |-> newRoot]

\* Block.balance: returns the allocator state and the root of the subtree.
balance(a, b, treeIndex) ==
    IF b = NIL THEN [a |-> a, ret |-> NIL]
    ELSE IF getLeftHeight(a, b, treeIndex) - getRightHeight(a, b, treeIndex) > 1
      THEN LET l == a.blk[b].trees[treeIndex].left
               r == rotateLeft2(a, l, treeIndex)
               a1 == IF getRightHeight(a, l, treeIndex) > getLeftHeight(a, l, treeIndex)
                       THEN [r.a EXCEPT !.blk[b].trees[treeIndex].left = r.ret]
                     ELSE a
           IN  rotateRight2(a1, b, treeIndex)
    ELSE IF getRightHeight(a, b, treeIndex) - getLeftHeight(a, b, treeIndex) > 1
      THEN LET r == a.blk[b].trees[treeIndex].right
               l == rotateRight2(a, r, treeIndex)
               a1 == IF getLeftHeight(a, r, treeIndex) > getRightHeight(a, r, treeIndex)
                       THEN [l.a EXCEPT !.blk[b].trees[treeIndex].right = l.ret]
                     ELSE a
           IN  rotateLeft2(a1, b, treeIndex)
    ELSE [a |-> a, ret |-> b]

\* Block.insert: returns the allocator state and the returned *Block.
RECURSIVE insert2(_, _, _, _)
insert2(a, b, block, treeIndex) ==
    IF b = NIL THEN [a |-> a, ret |-> block]
    ELSE
      LET goLeft == compares(treeIndex, a, block, b)
          sub == IF goLeft THEN insert2(a, a.blk[b].trees[treeIndex].left, block, treeIndex)
                 ELSE insert2(a, a.blk[b].trees[treeIndex].right, block, treeIndex)
          a1 == IF goLeft THEN [sub.a EXCEPT !.blk[b].trees[treeIndex].left = sub.ret]
                ELSE [sub.a EXCEPT !.blk[b].trees[treeIndex].right = sub.ret]
      IN  balance(updateHeight(a1, b, treeIndex), b, treeIndex)

RECURSIVE findMin(_, _, _)
findMin(a, b, treeIndex) ==
    IF a.blk[b].trees[treeIndex].left = NIL THEN b
    ELSE findMin(a, a.blk[b].trees[treeIndex].left, treeIndex)

\* Block.delete: returns the allocator state and the returned *Block; the
\* deferred function clears block.trees[treeIndex] at every return that
\* follows the nil check.
RECURSIVE delete(_, _, _, _)
delete(a, b, block, treeIndex) ==
    IF b = NIL THEN [a |-> a, ret |-> NIL]
    ELSE
      LET tree == a.blk[b].trees[treeIndex]
          r == IF b = block
                 THEN IF tree.left = NIL THEN [a |-> a, ret |-> tree.right]
                      ELSE IF tree.right = NIL THEN [a |-> a, ret |-> tree.left]
                      ELSE LET minBlock == findMin(a, tree.right, treeIndex)
                               d == delete(a, tree.right, minBlock, treeIndex)
                               a1 == [d.a EXCEPT !.blk[b].trees[treeIndex].right = d.ret]
                           IN  [a |-> [a1 EXCEPT !.blk[minBlock].trees[treeIndex] =
                                                     a1.blk[b].trees[treeIndex]],
                                ret |-> minBlock]
               ELSE IF compares(treeIndex, a, block, b)
                 THEN LET d == delete(a, tree.left, block, treeIndex)
                          a1 == [d.a EXCEPT !.blk[b].trees[treeIndex].left = d.ret]
                      IN  balance(updateHeight(a1, b, treeIndex), b, treeIndex)
               ELSE LET d == delete(a, tree.right, block, treeIndex)
                        a1 == [d.a EXCEPT !.blk[b].trees[treeIndex].right = d.ret]
                    IN  balance(updateHeight(a1, b, treeIndex), b, treeIndex)
      IN  [a |-> [r.a EXCEPT !.blk[block].trees[treeIndex] = emptyTree], ret |-> r.ret]

\* The loop of findAvailableBlock from block on.
RECURSIVE findAvailableFrom(_, _, _, _)
findAvailableFrom(a, block, size, lastAvailableBlock) ==
    IF block = NIL THEN lastAvailableBlock
    ELSE IF BlockSize(a, block) = size THEN block
    ELSE IF size < BlockSize(a, block)
      THEN findAvailableFrom(a, a.blk[block].trees[TreeIndexSize].left, size, block)
    ELSE findAvailableFrom(a, a.blk[block].trees[TreeIndexSize].right, size,
                           lastAvailableBlock)

findAvailableBlock(a, size) == findAvailableFrom(a, a.sizeTree, size, NIL)

\* Allocator.getBlock: returns the allocator state and the *Block.
getBlock2(a, start, end) ==
    IF a.pool = NIL
      THEN LET id == NewBlockId(a)
           IN  [a |-> [a EXCEPT !.blk = @ @@ (id :> Block2(start, end))], block |-> id]
    ELSE LET block == a.pool
         IN  [a |-> [a EXCEPT !.pool = a.blk[block].trees[TreeIndexSize].left,
                              !.blk[block] = Block2(start, end)],
              block |-> block]

putBlock2(a, b) ==
    [a EXCEPT !.blk[b].trees = [emptyTrees EXCEPT ![TreeIndexSize].left = a.pool],
              !.pool = b]

insertSizeTree(a, block) ==
    LET r == insert2(a, a.sizeTree, block, TreeIndexSize)
    IN  [r.a EXCEPT !.sizeTree = r.ret]

insertOffsetTree(a, block) ==
    LET r == insert2(a, a.offsetTree, block, TreeIndexOffset)
    IN  [r.a EXCEPT !.offsetTree = r.ret]

deleteSizeTree(a, block) ==
    LET r == delete(a, a.sizeTree, block, TreeIndexSize)
    IN  [r.a EXCEPT !.sizeTree = r.ret]

deleteOffsetTree(a, block) ==
    LET r == delete(a, a.offsetTree, block, TreeIndexOffset)
    IN  [r.a EXCEPT !.offsetTree = r.ret]

\* Allocator.Find
Allocator_Find2(a, size) ==
    LET block == findAvailableBlock(a, size)
    IN  IF block = NIL THEN NONE ELSE a.blk[block].Start

\* Allocator.Allocate: returns the allocator state and the offset.
Allocator_Allocate2(a, size) ==
    LET block == findAvailableBlock(a, size)
    IN  IF block = NIL THEN [a |-> a, offset |-> NONE]
        ELSE LET offset == a.blk[block].Start
                 a1 == deleteOffsetTree(deleteSizeTree(a, block), block)
             IN  IF offset + size < a1.blk[block].End
                   THEN [a |-> insertOffsetTree(
                                   insertSizeTree(
                                       [a1 EXCEPT !.blk[block].Start = offset + size],
                                       block),
                                   block),
                         offset |-> offset]
                 ELSE [a |-> putBlock2(a1, block), offset |-> offset]

RECURSIVE findLeftAdjacentBlock(_, _, _)
findLeftAdjacentBlock(a, b, offset) ==
    IF b = NIL THEN NIL
    ELSE IF a.blk[b].End = offset THEN b
    ELSE IF a.blk[b].End > offset
      THEN findLeftAdjacentBlock(a, a.blk[b].trees[TreeIndexOffset].left, offset)
    ELSE findLeftAdjacentBlock(a, a.blk[b].trees[TreeIndexOffset].right, offset)

RECURSIVE findRightAdjacentBlock(_, _, _)
findRightAdjacentBlock(a, b, offset) ==
    IF b = NIL THEN NIL
    ELSE IF a.blk[b].Start = offset THEN b
    ELSE IF a.blk[b].Start < offset
      THEN findRightAdjacentBlock(a, a.blk[b].trees[TreeIndexOffset].right, offset)
    ELSE findRightAdjacentBlock(a, a.blk[b].trees[TreeIndexOffset].left, offset)

Allocator_Free2(a, offset, size) ==
    LET leftAdjacent == findLeftAdjacentBlock(a, a.offsetTree, offset)
        rightAdjacent == findRightAdjacentBlock(a, a.offsetTree, offset + size)
    IN  IF leftAdjacent # NIL /\ rightAdjacent # NIL
          THEN LET a1 == deleteSizeTree(
                             deleteSizeTree(deleteOffsetTree(a, rightAdjacent),
                                            rightAdjacent),
                             leftAdjacent)
                   a2 == [a1 EXCEPT !.blk[leftAdjacent].End = a1.blk[rightAdjacent].End]
               IN  putBlock2(insertSizeTree(a2, leftAdjacent), rightAdjacent)
        ELSE IF leftAdjacent = NIL /\ rightAdjacent = NIL
          THEN LET g == getBlock2(a, offset, offset + size)
               IN  insertOffsetTree(insertSizeTree(g.a, g.block), g.block)
        ELSE IF leftAdjacent # NIL
          THEN LET a1 == deleteSizeTree(a, leftAdjacent)
               IN  insertSizeTree([a1 EXCEPT !.blk[leftAdjacent].End = offset + size],
                                  leftAdjacent)
        ELSE LET a1 == deleteSizeTree(deleteOffsetTree(a, rightAdjacent), rightAdjacent)
             IN  insertOffsetTree(
                     insertSizeTree([a1 EXCEPT !.blk[rightAdjacent].Start = offset],
                                    rightAdjacent),
                     rightAdjacent)

\* Block.Walk(fn, index): the blocks in the order fn is applied to them.
RECURSIVE Walk2(_, _, _)
Walk2(a, b, index) ==
    IF b = NIL THEN <<>>
    ELSE Walk2(a, a.blk[b].trees[index].left, index) \o <<b>>
           \o Walk2(a, a.blk[b].trees[index].right, index)

GetFreeSize2(a) ==
    LET w == Walk2(a, a.offsetTree, TreeIndexOffset)
    IN  SumSeq([i \in 1..Len(w) |-> BlockSize(a, w[i])])

\* Allocator.GetBlocks, each *Block shown as its (Start, End).
GetBlocks2(a) ==
    LET w == Walk2(a, a.offsetTree, TreeIndexOffset)
    IN  [i \in 1..Len(w) |-> [Start |-> a.blk[w[i]].Start, End |-> a.blk[w[i]].End]]

(***************************************************************************)
(* buddy_disable.go : the pooled region factory                            *)
(* buddy_disable_rm.go : MemoryAllocator (Region), ScalableMemoryAllocator *)
(*                                                                         *)
(* A Region is a record; its slab occupies the addresses                   *)
(* [start, start + Size).  A []byte is (ptr, len); the nil slice is        *)
(* NilSlice.  A slice made by make([]byte, n) outside any Region starts    *)
(* at HeapAddr.                                                            *)
(***************************************************************************)
NilSlice == [ptr |-> NONE, len |-> 0]

HeapAddr == 0

\* Blocks reachable from the Allocator (the others are garbage).
Reachable(a) ==
    LET RECURSIVE chain(_)
        chain(b) == IF b = NIL THEN {} ELSE {b} \cup chain(a.blk[b].parent)
    IN  Range(Walk(a, a.sizeTree)) \cup chain(a.pool)

Collect(a) == [a EXCEPT !.blk = [b \in Reachable(a) |-> a.blk[b]]]

\* Allocator.Init
Allocator_Init(a, size) ==
    LET g == getBlock(a, 0, size)
    IN  Collect([g.a EXCEPT !.sizeTree = g.block, !.Size = size])

\* Allocator.Recycle
Allocator_Recycle(a) == Collect([a EXCEPT !.sizeTree = NIL, !.pool = NIL])

\* The pool that serves Regions of this size ("none": no pool).
PoolOf(size) ==
    IF size = defaultBufSize THEN "pool0"
    ELSE IF size = 2 ^ MinPowerOf2 THEN "pool1"
    ELSE IF size = 2 ^ (MinPowerOf2 + 2) THEN "pool2"
    ELSE "none"

PoolNames == {"pool0", "pool1", "pool2"}

\* createMemoryAllocator; id is the identity of the new slab.
createMemoryAllocator(size, id) ==
    [id |-> id,
     allocator |-> Allocator_Init(NewAllocator(size), size),
     Size |-> size,
     start |-> id * Stride,
     recycle |-> "none"]

\* pool.New of init()
PoolNew(size, id) == [createMemoryAllocator(size, id) EXCEPT !.recycle = PoolOf(size)]

\* The ids of the slabs in use by the Scalable s or kept in a pool.
RegionIds(s, pl) ==
    {s.children[i].id : i \in DOMAIN s.children}
      \cup UNION {{r.id : r \in pl[p]} : p \in PoolNames}

NewRegionId(s, pl) ==
    SetMin({i \in 1..(Cardinality(RegionIds(s, pl)) + 1) : i \notin RegionIds(s, pl)})

\* What pool.Get() may do for a Region of this size: hand out a pooled
\* Region (its id) or call New (NIL).
GetChoices(pl, size) ==
    IF PoolOf(size) = "none" THEN {NIL}
    ELSE {NIL} \cup {r.id : r \in pl[PoolOf(size)]}

\* GetMemoryAllocator that hands out a pooled Region as it is.
GetMemoryAllocator_NoInit(size, s, pl, pick) ==
    IF PoolOf(size) = "none"
      THEN [ret |-> createMemoryAllocator(size, NewRegionId(s, pl)), pools |-> pl]
    ELSE IF pick = NIL
      THEN [ret |-> PoolNew(size, NewRegionId(s, pl)), pools |-> pl]
    ELSE LET r == CHOOSE r \in pl[PoolOf(size)] : r.id = pick
         IN  [ret |-> r, pools |-> [pl EXCEPT ![PoolOf(size)] = @ \ {r}]]

\* GetMemoryAllocator: returns the Region and the pools.
GetMemoryAllocator(size, s, pl, pick) ==
    IF PoolOf(size) = "none"
      THEN [ret |-> createMemoryAllocator(size, NewRegionId(s, pl)), pools |-> pl]
    ELSE IF pick = NIL
      THEN [ret |-> [PoolNew(size, NewRegionId(s, pl))
                        EXCEPT !.allocator = Allocator_Init(@, size)],
            pools |-> pl]
    ELSE LET r == CHOOSE r \in pl[PoolOf(size)] : r.id = pick
         IN  [ret |-> [r EXCEPT !.allocator = Allocator_Init(@, size)],
              pools |-> [pl EXCEPT ![PoolOf(size)] = @ \ {r}]]

\* MemoryAllocator.Recycle: returns the pools.
MemoryAllocator_Recycle(ma, pl) ==
    LET ma1 == [ma EXCEPT !.allocator = Allocator_Recycle(@)]
    IN  IF ma.recycle # "none" THEN [pl EXCEPT ![ma.recycle] = @ \cup {ma1}]
        ELSE pl

\* MemoryAllocator.Find
MemoryAllocator_Find(ma, size) ==
    LET offset == Allocator_Find(ma.allocator, size)
    IN  IF offset # NONE THEN [ptr |-> ma.start + offset, len |-> size]
        ELSE NilSlice

\* MemoryAllocator.Malloc that slices the slab at 0 instead of at offset.
MemoryAllocator_Malloc_NoOffset(ma, size) ==
    LET r == Allocator_Allocate(ma.allocator, size)
    IN  IF r.offset # NONE
          THEN [ma |-> [ma EXCEPT !.allocator = r.a],
                memory |-> [ptr |-> ma.start, len |-> size]]
        ELSE [ma |-> ma, memory |-> NilSlice]

\* MemoryAllocator.Malloc: returns the Region and the slice.
MemoryAllocator_Malloc(ma, size) ==
    LET r == Allocator_Allocate(ma.allocator, size)
    IN  IF r.offset # NONE
          THEN [ma |-> [ma EXCEPT !.allocator = r.a],
                memory |-> [ptr |-> ma.start + r.offset, len |-> size]]
        ELSE [ma |-> ma, memory |-> NilSlice]

\* MemoryAllocator.free that does not compare start + size with ma.Size.
MemoryAllocator_free_NoBound(ma, start, size) ==
    IF start < 0 THEN [ma |-> ma, ret |-> FALSE]
    ELSE [ma |-> [ma EXCEPT !.allocator = Allocator_Free(@, start, size)],
          ret |-> TRUE]

\* MemoryAllocator.free: returns the Region and the result.
MemoryAllocator_free(ma, start, size) ==
    IF start < 0 \/ start + size > ma.Size THEN [ma |-> ma, ret |-> FALSE]
    ELSE [ma |-> [ma EXCEPT !.allocator = Allocator_Free(@, start, size)],
          ret |-> TRUE]

\* NewScalableMemoryAllocator: returns the Scalable and the pools.
NewScalableMemoryAllocator(size, pl, pick) ==
    LET none == [children |-> <<>>]
        g == GetMemoryAllocator(size, none, pl, pick)
    IN  [sma |-> [children |-> <<g.ret>>, totalMalloc |-> 0, totalFree |-> 0,
                  size |-> size, childSize |-> size],
         pools |-> g.pools]

\* The loop of ScalableMemoryAllocator.Recycle from child i on: the pools.
RECURSIVE RecycleFrom(_, _, _)
RecycleFrom(children, pl, i) ==
    IF i > Len(children) THEN pl
    ELSE RecycleFrom(children, MemoryAllocator_Recycle(children[i], pl), i + 1)

\* Recycle that does not clear the list of Regions.
Scalable_Recycle_KeepList(s, pl) ==
    [sma |-> s, pools |-> RecycleFrom(s.children, pl, 1)]

\* ScalableMemoryAllocator.Recycle: returns the Scalable and the pools.
Scalable_Recycle(s, pl) ==
    [sma |-> [s EXCEPT !.children = <<>>], pools |-> RecycleFrom(s.children, pl, 1)]

\* Growth that doubles childSize once instead of until it is large enough.
Grow_Once(childSize, size) ==
    IF childSize < MaxBlockSize THEN childSize * 2 ELSE childSize

\* Growth that does not double a childSize that is already large enough.
RECURSIVE Grow_NoForce(_, _)
Grow_NoForce(childSize, size) ==
    IF childSize < MaxBlockSize /\ childSize < size
      THEN Grow_NoForce(childSize * 2, size)
    ELSE childSize

\* The growth loop of Malloc and Borrow: the new value of childSize.
RECURSIVE Grow(_, _)
Grow(childSize, size) ==
    IF childSize < MaxBlockSize
      THEN LET c == childSize * 2
           IN  IF c >= size THEN c ELSE Grow(c, size)
    ELSE childSize

SeqDelete(s, i) == [j \in 1..(Len(s) - 1) |-> IF j < i THEN s[j] ELSE s[j + 1]]

\* Malloc, no child served the request: the end of Malloc for the new
\* child g.ret, m being the result of its Malloc; the bytes are not counted.
MallocAppend_NoCount(s, size, childSize, g, m) ==
    [sma |-> [s EXCEPT !.childSize = childSize,
                       !.size = @ + g.ret.Size,
                       !.children = Append(@, m.ma)],
     pools |-> g.pools, memory |-> m.memory]

\* Malloc, no child served the request: the end of Malloc for the new
\* child g.ret, m being the result of its Malloc.
MallocAppend(s, size, childSize, g, m) ==
    [sma |-> [s EXCEPT !.childSize = childSize,
                       !.size = @ + g.ret.Size,
                       !.children = Append(@, m.ma),
                       !.totalMalloc = @ + size],
     pools |-> g.pools, memory |-> m.memory]

\* Malloc, no child served the request: g is what GetMemoryAllocator gave.
MallocNew(s, size, childSize, g) ==
    TheOne({MallocAppend(s, size, childSize, g, m) :
              m \in {MemoryAllocator_Malloc(g.ret, size)}})

\* Malloc, no child served the request: grow childSize and get a Region.
MallocGrow(s, pl, size, pick) ==
    TheOne({MallocNew(s, size, Grow(s.childSize, size), g) :
              g \in {GetMemoryAllocator(Grow(s.childSize, size), s, pl, pick)}})

\* The loop of Malloc over the children, from child i on; MallocTry is its
\* body for child i, m being the result of the child's Malloc.
RECURSIVE MallocFrom(_, _, _, _, _)
MallocTry(s, pl, size, pick, i, m) ==
    IF m.memory # NilSlice
      THEN [sma |-> [s EXCEPT !.children[i] = m.ma, !.totalMalloc = @ + size],
            pools |-> pl, memory |-> m.memory]
    ELSE MallocFrom(s, pl, size, pick, i + 1)

MallocFrom(s, pl, size, pick, i) ==
    IF i > Len(s.children) THEN MallocGrow(s, pl, size, pick)
    ELSE TheOne({MallocTry(s, pl, size, pick, i, m) :
                   m \in {MemoryAllocator_Malloc(s.children[i], size)}})

\* ScalableMemoryAllocator.Malloc: returns the Scalable, the pools and memory.
Scalable_Malloc(s, pl, size, pick) ==
    IF size > MaxBlockSize
      THEN [sma |-> s, pools |-> pl, memory |-> [ptr |-> HeapAddr, len |-> size]]
    ELSE MallocFrom(s, pl, size, pick, 1)

\* Borrow, no child has the bytes: the end of Borrow for the new child g.ret.
BorrowNew(s, size, childSize, g) ==
    [sma |-> [s EXCEPT !.childSize = childSize,
                       !.size = @ + g.ret.Size,
                       !.children = Append(@, g.ret),
                       !.totalMalloc = @ + size],
     pools |-> g.pools,
     memory |-> MemoryAllocator_Find(g.ret, size)]

\* Borrow, no child has the bytes: grow childSize and get a Region.
BorrowGrow(s, pl, size, pick) ==
    TheOne({BorrowNew(s, size, Grow(s.childSize, size), g) :
              g \in {GetMemoryAllocator(Grow(s.childSize, size), s, pl, pick)}})

\* The loop of Borrow over the children, from child i on; BorrowTry is its
\* body for child i, memory being the result of the child's Find.
RECURSIVE BorrowFrom(_, _, _, _, _)
BorrowTry(s, pl, size, pick, i, memory) ==
    IF memory # NilSlice
      THEN [sma |-> [s EXCEPT !.totalMalloc = @ + size],
            pools |-> pl, memory |-> memory]
    ELSE BorrowFrom(s, pl, size, pick, i + 1)

BorrowFrom(s, pl, size, pick, i) ==
    IF i > Len(s.children) THEN BorrowGrow(s, pl, size, pick)
    ELSE TheOne({BorrowTry(s, pl, size, pick, i, memory) :
                   memory \in {MemoryAllocator_Find(s.children[i], size)}})

\* ScalableMemoryAllocator.Borrow: returns the Scalable, the pools and memory.
Scalable_Borrow(s, pl, size, pick) ==
    IF size > MaxBlockSize
      THEN [sma |-> s, pools |-> pl, memory |-> NilSlice]
    ELSE BorrowFrom(s, pl, size, pick, 1)

\* The condition of the loop of Free for one child: the child owns mem, f
\* being what child.free(start, size) returns and does.
Owns(child, mem, f) ==
    /\ mem.ptr - child.start >= 0
    /\ mem.ptr - child.start < child.Size
    /\ f.ret

\* The body of the loop of Free that drops a Region that is entirely free
\* also when it is the only one.
FreeDone_DropLast(s, pl, i, child) ==
    IF BlockSize(child.allocator, child.allocator.sizeTree) = child.Size
      THEN [sma |-> [s EXCEPT !.children = SeqDelete(@, i), !.size = @ - child.Size],
            pools |-> MemoryAllocator_Recycle(child, pl),
            ret |-> TRUE]
    ELSE [sma |-> s, pools |-> pl, ret |-> TRUE]

\* The body of the loop of Free once child i, already freed into, owns mem.
FreeDone(s, pl, i, child) ==
    IF Len(s.children) > 1
         /\ BlockSize(child.allocator, child.allocator.sizeTree) = child.Size
      THEN [sma |-> [s EXCEPT !.children = SeqDelete(@, i), !.size = @ - child.Size],
            pools |-> MemoryAllocator_Recycle(child, pl),
            ret |-> TRUE]
    ELSE [sma |-> s, pools |-> pl, ret |-> TRUE]

\* The loop of Free from child i on; FreeTry is its body for child i, f
\* being what child.free(start, size) returns and does.
RECURSIVE FreeFrom(_, _, _, _)
FreeTry(s, pl, mem, i, f) ==
    IF Owns(s.children[i], mem, f)
      THEN FreeDone([s EXCEPT !.children[i] = f.ma, !.totalFree = @ + mem.len],
                    pl, i, f.ma)
    ELSE FreeFrom(s, pl, mem, i + 1)

FreeFrom(s, pl, mem, i) ==
    IF i > Len(s.children) THEN [sma |-> s, pools |-> pl, ret |-> FALSE]
    ELSE TheOne({FreeTry(s, pl, mem, i, f) :
                   f \in {MemoryAllocator_free(s.children[i],
                                                mem.ptr - s.children[i].start,
                                                mem.len)}})

\* ScalableMemoryAllocator.Free: returns the Scalable, the pools and the result.
Scalable_Free(s, pl, mem) == FreeFrom(s, pl, mem, 1)

\* mem[i:j]
SubSlice(mem, i, j) == [ptr |-> mem.ptr + i, len |-> j - i]

\* The end of FreeRest that leaves *mem as it is.
FreeRestDone_NoTruncate(mem, keep, r) ==
    [sma |-> r.sma, pools |-> r.pools, mem |-> mem]

\* ScalableMemoryAllocator.FreeRest, r being what Free(m[keep:]) returns and
\* does: returns the Scalable, the pools and the slice *mem.
FreeRestDone(mem, keep, r) ==
    [sma |-> r.sma, pools |-> r.pools, mem |-> SubSlice(mem, 0, keep)]

FreeRest(s, pl, mem, keep) ==
    IF keep < mem.len
      THEN TheOne({FreeRestDone(mem, keep, r) :
                     r \in {Scalable_Free(s, pl, SubSlice(mem, keep, mem.len))}})
    ELSE [sma |-> s, pools |-> pl, mem |-> mem]

\* The end of Read, r being what the Free it called returns and does.
ReadFreed(mem, err, r) ==
    [sma |-> r.sma, pools |-> r.pools, mem |-> mem, err |-> err]

\* Read after Malloc that does not free the allocation when the reader
\* returns an error.
ReadDone_NoRollback(m, n, k, err) ==
    IF ~err /\ k < n
      THEN TheOne({ReadFreed(SubSlice(m.memory, 0, k), err, r) :
                     r \in {Scalable_Free(m.sma, m.pools, SubSlice(m.memory, k, n))}})
    ELSE [sma |-> m.sma, pools |-> m.pools, mem |-> m.memory, err |-> err]

\* ScalableMemoryAllocator.Read after mem = sma.Malloc(n), in the Scalable
\* and pools m: the reader returned (k, err), err being TRUE for an error.
ReadDone(m, n, k, err) ==
    IF ~err
      THEN IF k < n
             THEN TheOne({ReadFreed(SubSlice(m.memory, 0, k), err, r) :
                            r \in {Scalable_Free(m.sma, m.pools, SubSlice(m.memory, k, n))}})
           ELSE [sma |-> m.sma, pools |-> m.pools, mem |-> m.memory, err |-> err]
    ELSE TheOne({ReadFreed(m.memory, err, r) :
                   r \in {Scalable_Free(m.sma, m.pools, m.memory)}})

\* ScalableMemoryAllocator.Read: returns the Scalable, the pools, mem and err.
Scalable_Read(s, pl, n, k, err, pick) ==
    TheOne({ReadDone(m, n, k, err) : m \in {Scalable_Malloc(s, pl, n, pick)}})

(***************************************************************************)
(* Memory (mem.go) and RecyclableMemory (buddy_disable_rm.go).  A nil      *)
(* recycleIndexes is the record NilIndexes; the indexes count from 0 as in *)
(* the code, Buffers[index] being the element index + 1 of the sequence.   *)
(***************************************************************************)
NilIndexes == [nil |-> TRUE, elems |-> <<>>]

Memory_Reset(m) == [m EXCEPT !.Buffers = <<>>, !.Size = 0]

Memory_PushOne(m, b) == [m EXCEPT !.Buffers = Append(@, b), !.Size = @ + b.len]

Memory_Count(m) == Len(m.Buffers)

\* NewMemory(buf), in a RecyclableMemory r whose embedded Memory it becomes
NewMemory(r, buf) == [r EXCEPT !.Buffers = <<buf>>, !.Size = buf.len]

\* Memory.Push(b...)
Memory_Push(m, b) ==
    [m EXCEPT !.Buffers = @ \o b, !.Size = @ + SumSeq([i \in DOMAIN b |-> b[i].len])]

\* Memory.Append(mm)
Memory_Append(m, mm) == [m EXCEPT !.Buffers = @ \o mm.Buffers, !.Size = @ + mm.Size]

\* Memory.UpdateBuffer(index, buf); m.Buffers[index] out of range panics
\* before anything is assigned.
Memory_UpdateBuffer(m, index, buf) ==
    LET i == IF index < 0 THEN Len(m.Buffers) + index ELSE index
    IN  IF i < 0 \/ i >= Len(m.Buffers) THEN m
        ELSE [m EXCEPT !.Size = buf.len - m.Buffers[i + 1].len, !.Buffers[i + 1] = buf]

NewRecyclableMemory ==
    [Buffers |-> <<>>, Size |-> 0, recycleIndexes |-> NilIndexes]

InitRecycleIndexes(r) ==
    IF r.recycleIndexes.nil
      THEN [r EXCEPT !.recycleIndexes = [nil |-> FALSE, elems |-> <<>>]]
    ELSE r

\* RecyclableMemory.AddRecycleBytes
AddRecycleBytes(r, b) ==
    Memory_PushOne(
        IF ~r.recycleIndexes.nil
          THEN [r EXCEPT !.recycleIndexes.elems = Append(@, Memory_Count(r))]
        ELSE r, b)

\* RecyclableMemory.NextN, m being what allocator.Malloc(size) returns and
\* does: returns the Recyclable, the Scalable, the pools and memory.
NextNDone(r, m) ==
    [rm |-> AddRecycleBytes(r, m.memory), sma |-> m.sma, pools |-> m.pools,
     memory |-> m.memory]

NextN(r, s, pl, size, pick) ==
    TheOne({NextNDone(r, m) : m \in {Scalable_Malloc(s, pl, size, pick)}})

\* The segments that a Recycle iterating over every segment passes to Free.
RecycleOrder_All(r) == [i \in 1..Len(r.Buffers) |-> i - 1]

\* The indexes of the segments that Recycle passes to Free, in order.
RecycleOrder(r) ==
    IF ~r.recycleIndexes.nil THEN r.recycleIndexes.elems
    ELSE [i \in 1..Len(r.Buffers) |-> i - 1]

\* The loops of Recycle: allocator.Free(r.Buffers[order[k]]) from k on.
RECURSIVE FreeAll(_, _, _, _, _)
FreeAllNext(bufs, order, k, f) == FreeAll(f.sma, f.pools, bufs, order, k + 1)

FreeAll(s, pl, bufs, order, k) ==
    IF k > Len(order) THEN [sma |-> s, pools |-> pl]
    ELSE TheOne({FreeAllNext(bufs, order, k, f) :
                   f \in {Scalable_Free(s, pl, bufs[order[k] + 1])}})

\* RecyclableMemory.Recycle that leaves the indexes it has used in place.
Recycle_KeepIndexes(r, s, pl) ==
    [rm |-> Memory_Reset(r),
     fr |-> FreeAll(s, pl, r.Buffers, RecycleOrder(r), 1)]

\* RecyclableMemory.Recycle: returns the Recyclable and, in fr, the Scalable
\* and the pools.
Recycle(r, s, pl) ==
    [rm |-> Memory_Reset([r EXCEPT !.recycleIndexes.elems = <<>>]),
     fr |-> FreeAll(s, pl, r.Buffers, RecycleOrder(r), 1)]

(***************************************************************************)
(* buddy.go : Buddy                                                        *)
(*                                                                         *)
(* A Buddy is a record of size (the number of units, the leaves of the     *)
(* tree) and longests, a function on 0 .. 2*size - 2.  An int is 32 bits   *)
(* wide, as on GOARCH=386 and arm; with 64 bits the same wrap-around       *)
(* happens at 1<<62 + 1<<30 instead of 1<<30 + 1.  A call that panics      *)
(* (index out of range) has the result "panic".                            *)
(***************************************************************************)
MaxInt == 2147483647

MinInt == (0 - 2147483647) - 1

\* mem.go : BuddySize = MaxBlockSize << 7, made smaller here: a Buddy of
\* 2^BuddyLevels units of 2^MinPowerOf2 bytes.
BuddySize == 2 ^ (MinPowerOf2 + BuddyLevels)

\* a & b and a | b, for a, b >= 0
RECURSIVE BitAnd(_, _)
BitAnd(a, b) ==
    IF a = 0 \/ b = 0 THEN 0
    ELSE (IF a % 2 = 1 /\ b % 2 = 1 THEN 1 ELSE 0) + 2 * BitAnd(a \div 2, b \div 2)

RECURSIVE BitOr(_, _)
BitOr(a, b) ==
    IF a = 0 THEN b
    ELSE IF b = 0 THEN a
    ELSE (IF a % 2 = 1 \/ b % 2 = 1 THEN 1 ELSE 0) + 2 * BitOr(a \div 2, b \div 2)

\* size |= size >> k
OrShift(size, k) == BitOr(size, size \div (2 ^ k))

isPowerOf2(size) == BitAnd(size, size - 1) = 0

\* fixSize that returns its argument.
fixSize_Same(size) == size

fixSize(size) ==
    LET s == OrShift(OrShift(OrShift(OrShift(OrShift(size, 1), 2), 4), 8), 16)
    IN  IF s = MaxInt THEN MinInt ELSE s + 1

leftChild(index) == 2 * index + 1

rightChild(index) == 2 * index + 2

parent(index) == ((index + 1) \div 2) - 1

\* The loop of NewBuddy: longests[i], ..., longests[n-1] appended to l.
RECURSIVE NewLongests(_, _, _, _)
NewLongests(l, nodeSize, i, n) ==
    IF i >= n THEN l
    ELSE LET ns == IF isPowerOf2(i + 1) THEN nodeSize \div 2 ELSE nodeSize
         IN  NewLongests(Append(l, ns), ns, i + 1, n)

NewBuddy ==
    LET size == BuddySize \div (2 ^ MinPowerOf2)
        n == (BuddySize \div (2 ^ (MinPowerOf2 - 1))) - 1
        l == NewLongests(<<>>, 2 * size, 0, n)
    IN  [size |-> size, longests |-> [i \in 0..(n - 1) |-> l[i + 1]]]

\* The first loop of Alloc that goes to the right child when it fits.
RECURSIVE AllocDescend_RightFirst(_, _, _, _)
AllocDescend_RightFirst(b, index, nodeSize, size) ==
    IF nodeSize = size THEN index
    ELSE IF leftChild(index) \notin DOMAIN b.longests THEN NONE
    ELSE IF b.longests[rightChild(index)] >= size
      THEN AllocDescend_RightFirst(b, rightChild(index), nodeSize \div 2, size)
    ELSE AllocDescend_RightFirst(b, leftChild(index), nodeSize \div 2, size)

\* The first loop of Alloc: the index of the node it marks, NONE when the
\* loop indexes longests out of range.
RECURSIVE AllocDescend(_, _, _, _)
AllocDescend(b, index, nodeSize, size) ==
    IF nodeSize = size THEN index
    ELSE IF leftChild(index) \notin DOMAIN b.longests THEN NONE
    ELSE IF b.longests[leftChild(index)] >= size
      THEN AllocDescend(b, leftChild(index), nodeSize \div 2, size)
    ELSE AllocDescend(b, rightChild(index), nodeSize \div 2, size)

\* The second loop of Alloc that stops at the parent of index.
AllocUpdate_ParentOnly(l, index) ==
    IF index = 0 THEN l
    ELSE LET p == parent(index)
             m == IF l[leftChild(p)] >= l[rightChild(p)] THEN l[leftChild(p)]
                  ELSE l[rightChild(p)]
         IN  [l EXCEPT ![p] = m]

\* The second loop of Alloc: the longests of the ancestors of index.
RECURSIVE AllocUpdate(_, _)
AllocUpdate(l, index) ==
    IF index = 0 THEN l
    ELSE LET p == parent(index)
             m == IF l[leftChild(p)] >= l[rightChild(p)] THEN l[leftChild(p)]
                  ELSE l[rightChild(p)]
         IN  AllocUpdate([l EXCEPT ![p] = m], p)

\* Alloc that does not mark the node it has found.
AllocMark_NoZero(b, index, size) ==
    [b |-> b, offset |-> (index + 1) * size - b.size, err |-> "nil"]

\* Alloc from b.longests[index] = 0 on.
AllocMark(b, index, size) ==
    [b |-> [b EXCEPT !.longests = AllocUpdate([b.longests EXCEPT ![index] = 0], index)],
     offset |-> (index + 1) * size - b.size,
     err |-> "nil"]

\* Alloc with the lock held, size being rounded already.
AllocLocked(b, size) ==
    IF size > b.longests[0] THEN [b |-> b, offset |-> 0, err |-> "NotFoundErr"]
    ELSE LET index == AllocDescend(b, 0, b.size, size)
         IN  IF index = NONE THEN [b |-> b, offset |-> 0, err |-> "panic"]
             ELSE AllocMark(b, index, size)

\* The size that Alloc looks for.
AllocSizeOf(size) == IF ~isPowerOf2(size) THEN fixSize(size) ELSE size

\* Buddy.Alloc: returns the Buddy, offset and err.
Buddy_Alloc(b, size) ==
    IF size <= 0 THEN [b |-> b, offset |-> 0, err |-> "InValidParameterErr"]
    ELSE AllocLocked(b, AllocSizeOf(size))

\* The first loop of Free: the node it frees and its size, index = NONE when
\* it returns NotFoundErr.
RECURSIVE FreeClimb(_, _, _)
FreeClimb(b, index, nodeSize) ==
    IF b.longests[index] = 0 THEN [index |-> index, nodeSize |-> nodeSize]
    ELSE IF index = 0 THEN [index |-> NONE, nodeSize |-> 2 * nodeSize]
    ELSE FreeClimb(b, parent(index), 2 * nodeSize)

\* The second loop of Free without the merge of two free halves.
RECURSIVE FreeUpdate_NoMerge(_, _, _)
FreeUpdate_NoMerge(l, index, nodeSize) ==
    IF index = 0 THEN l
    ELSE LET p == parent(index)
             leftSize == l[leftChild(p)]
             rightSize == l[rightChild(p)]
         IN  FreeUpdate_NoMerge(
                 [l EXCEPT ![p] = IF leftSize >= rightSize THEN leftSize ELSE rightSize],
                 p, 2 * nodeSize)

\* The second loop of Free: the longests of the ancestors of index.
RECURSIVE FreeUpdate(_, _, _)
FreeUpdate(l, index, nodeSize) ==
    IF index = 0 THEN l
    ELSE LET p == parent(index)
             leftSize == l[leftChild(p)]
             rightSize == l[rightChild(p)]
         IN  FreeUpdate(
                 [l EXCEPT ![p] = IF leftSize + rightSize = 2 * nodeSize THEN 2 * nodeSize
                                  ELSE IF leftSize >= rightSize THEN leftSize
                                  ELSE rightSize],
                 p, 2 * nodeSize)

\* Free with the lock held.
FreeLocked(b, offset) ==
    LET c == FreeClimb(b, offset + b.size - 1, 1)
    IN  IF c.index = NONE THEN [b |-> b, err |-> "NotFoundErr"]
        ELSE [b |-> [b EXCEPT !.longests =
                        FreeUpdate([b.longests EXCEPT ![c.index] = c.nodeSize],
                                   c.index, c.nodeSize)],
              err |-> "nil"]

\* Buddy.Free: returns the Buddy and err.
Buddy_Free(b, offset) ==
    IF offset < 0 \/ offset >= b.size THEN [b |-> b, err |-> "InValidParameterErr"]
    ELSE FreeLocked(b, offset)

(***************************************************************************)
(* buddy_enable.go : the buddy-backed region factory                       *)
(*                                                                         *)
(* The Buddies are the entries of a function from buddy identities to      *)
(* Buddy records; the memoryPool of Buddy id occupies the addresses        *)
(* [id * Stride, id * Stride + BuddySize).  A Region made by this factory  *)
(* has, as recycle, the Buddy and the offset that its closure frees.       *)
(***************************************************************************)
poolStart(id) == id * Stride

\* createMemoryAllocator of buddy_enable.go; offset is in bytes.
createMemoryAllocator_buddy(size, id, offset) ==
    [id |-> poolStart(id) + offset,
     allocator |-> Allocator_Init(NewAllocator(size), size),
     Size |-> size,
     start |-> poolStart(id) + offset,
     recycle |-> [buddy |-> id, offset |-> offset]]

\* requiredSize := size >> MinPowerOf2
requiredSize(size) == size \div (2 ^ MinPowerOf2)

\* One turn of the loop of GetMemoryAllocator with the Buddy id that
\* GetBuddy() returned: the Buddy after buddy.Alloc, err, and the Region.
GetMemoryAllocator_try(size, bs, id) ==
    LET r == Buddy_Alloc(bs[id], requiredSize(size))
    IN  [b |-> r.b, err |-> r.err,
         ret |-> createMemoryAllocator_buddy(size, id, r.offset * (2 ^ MinPowerOf2))]

\* The recycle function of a Region of this factory: returns the Buddy.
recycle_buddy(ma, bs) ==
    Buddy_Free(bs[ma.recycle.buddy], ma.recycle.offset \div (2 ^ MinPowerOf2)).b

(***************************************************************************)
(* mem_reader.go : MemoryReader; mem.go : Memory.ToBytes                   *)
(*                                                                         *)
(* Here a []byte is the sequence of its bytes, and Buffers a sequence of   *)
(* such sequences.  A MemoryReader is a record of the fields of its Memory *)
(* (Buffers, Size) and of Length, offset0 and offset1.  A call that        *)
(* indexes Buffers out of range has the result "panic".                    *)
(***************************************************************************)
\* make([]byte, n)
MakeBytes(n) == [i \in 1..n |-> 0]

\* copy(buf[at:], src): buf afterwards and the number of bytes copied.
Copy(buf, at, src) ==
    LET k == IF Len(buf) - at <= Len(src) THEN Len(buf) - at ELSE Len(src)
    IN  [buf |-> [i \in 1..Len(buf) |-> IF i > at /\ i <= at + k THEN src[i - at]
                                         ELSE buf[i]],
         n |-> k]

\* The loop of Memory.CopyTo from segment i on, at bytes already written.
RECURSIVE CopyToFrom(_, _, _, _)
CopyToFrom(m, buf, at, i) ==
    IF i > Len(m.Buffers) THEN buf
    ELSE CopyToFrom(m, Copy(buf, at, m.Buffers[i]).buf, at + Len(m.Buffers[i]), i + 1)

\* Memory.ToBytes
Memory_ToBytes(m) == CopyToFrom(m, MakeBytes(m.Size), 0, 1)

\* NewReadableBuffersFromBytes(b...)
NewReadableBuffersFromBytes(b) ==
    [Buffers |-> b,
     Size |-> SumSeq([i \in DOMAIN b |-> Len(b[i])]),
     Length |-> SumSeq([i \in DOMAIN b |-> Len(b[i])]),
     offset0 |-> 0,
     offset1 |-> 0]

\* MemoryReader.GetCurrent
GetCurrent(r) ==
    SubSeq(r.Buffers[r.offset0 + 1], r.offset1 + 1, Len(r.Buffers[r.offset0 + 1]))

getCurrentBufLen(r) == Len(r.Buffers[r.offset0 + 1]) - r.offset1

MoveToEnd(r) == [r EXCEPT !.offset0 = Len(r.Buffers), !.offset1 = 0, !.Length = 0]

forward(r, n) == [r EXCEPT !.Length = @ - n, !.offset1 = @ + n]

skipBuf(r) ==
    [r EXCEPT !.Length = @ - getCurrentBufLen(r), !.offset0 = @ + 1, !.offset1 = 0]

\* Read, n > r.Length: the loop over r.Memory.Buffers[r.offset0:] from
\* segment i on.
RECURSIVE ReadRestFrom(_, _, _, _)
ReadRestFrom(r, buf, actual, i) ==
    IF i > Len(r.Buffers)
      THEN [r |-> MoveToEnd(r), actual |-> actual, err |-> "nil", buf |-> buf]
    ELSE LET c == Copy(buf, actual, r.Buffers[i])
         IN  ReadRestFrom(r, c.buf, actual + c.n, i + 1)

\* Read, n > r.Length, that leaves offset0 at the segment it has copied.
ReadRest_NoAdvance(r, buf) ==
    LET curBuf == GetCurrent(r)
    IN  IF Len(curBuf) > 0
          THEN LET c == Copy(buf, 0, curBuf)
               IN  ReadRestFrom(r, c.buf, c.n, r.offset0 + 1)
        ELSE ReadRestFrom(r, buf, 0, r.offset0 + 1)

\* Read, n > r.Length: everything that is left is copied.
ReadRest(r, buf) ==
    LET curBuf == GetCurrent(r)
    IN  IF Len(curBuf) > 0
          THEN LET c == Copy(buf, 0, curBuf)
                   r1 == [r EXCEPT !.offset0 = @ + 1, !.offset1 = 0]
               IN  ReadRestFrom(r1, c.buf, c.n, r1.offset0 + 1)
        ELSE ReadRestFrom(r, buf, 0, r.offset0 + 1)

\* Read, n <= r.Length: the loop for n > 0, l being len(buf).
RECURSIVE ReadLoop(_, _, _, _, _)
ReadLoop(r, buf, l, n, actual) ==
    IF n <= 0 THEN [r |-> r, actual |-> actual, err |-> "nil", buf |-> buf]
    ELSE IF r.offset0 >= Len(r.Buffers)
      THEN [r |-> r, actual |-> actual, err |-> "panic", buf |-> buf]
    ELSE LET curBuf == GetCurrent(r)
             curBufLen == Len(curBuf)
         IN  IF n < curBufLen
               THEN [r |-> forward(r, n), actual |-> actual + n, err |-> "nil",
                     buf |-> Copy(buf, l - n, SubSeq(curBuf, 1, n)).buf]
             ELSE IF skipBuf(r).Length = 0 /\ n - curBufLen > 0
               THEN [r |-> skipBuf(r), actual |-> actual + curBufLen, err |-> "EOF",
                     buf |-> Copy(buf, l - n, curBuf).buf]
             ELSE ReadLoop(skipBuf(r), Copy(buf, l - n, curBuf).buf, l,
                           n - curBufLen, actual + curBufLen)

\* MemoryReader.Read(buf), len(buf) = n: returns the reader, actual, err and
\* buf afterwards.
MemoryReader_Read(r, n) ==
    IF r.Length = 0
      THEN [r |-> r, actual |-> 0, err |-> "EOF", buf |-> MakeBytes(n)]
    ELSE IF r.offset0 >= Len(r.Buffers)
      THEN [r |-> r, actual |-> 0, err |-> "panic", buf |-> MakeBytes(n)]
    ELSE IF n > r.Length THEN ReadRest(r, MakeBytes(n))
    ELSE ReadLoop(r, MakeBytes(n), n, n, 0)

\* MemoryReader.ReadByte: returns the reader, the byte and err.
MemoryReader_ReadByte(r) ==
    IF r.Length = 0 THEN [r |-> r, b |-> 0, err |-> "EOF"]
    ELSE IF r.offset0 >= Len(r.Buffers) THEN [r |-> r, b |-> 0, err |-> "panic"]
    ELSE IF r.offset1 >= Len(r.Buffers[r.offset0 + 1])
      THEN [r |-> r, b |-> 0, err |-> "panic"]
    ELSE LET curBuf == GetCurrent(r)
         IN  [r |-> IF Len(curBuf) = 1 THEN skipBuf(r) ELSE forward(r, 1),
              b |-> curBuf[1],
              err |-> "nil"]

\* Skip, the loop for n > 0: curBufLen is the value taken before the loop.
RECURSIVE SkipLoop(_, _, _)
SkipLoop(r, n, curBufLen) ==
    IF n <= 0 THEN [r |-> r, err |-> "nil"]
    ELSE IF n < curBufLen THEN [r |-> forward(r, n), err |-> "nil"]
    ELSE IF r.offset0 >= Len(r.Buffers) THEN [r |-> r, err |-> "panic"]
    ELSE IF skipBuf(r).Length = 0 /\ n - curBufLen > 0
      THEN [r |-> skipBuf(r), err |-> "EOF"]
    ELSE SkipLoop(skipBuf(r), n - curBufLen, curBufLen)

\* MemoryReader.Skip(n): returns the reader and err.
MemoryReader_Skip(r, n) ==
    IF n <= 0 THEN [r |-> r, err |-> "nil"]
    ELSE IF n > r.Length THEN [r |-> r, err |-> "EOF"]
    ELSE IF r.offset0 >= Len(r.Buffers) THEN [r |-> r, err |-> "panic"]
    ELSE SkipLoop(r, n, getCurrentBufLen(r))

(***************************************************************************)
(* State.                                                                  *)
(*   al     the Allocator driven directly (SpecA)                          *)
(*   used   the outstanding allocations of al, as (off, len) pieces        *)
(*   last   the last call made on al, what it returned and, for Free,      *)
(*          whether it freed only a part of an outstanding piece           *)
(*   sma    the ScalableMemoryAllocator                                    *)
(*   pools  pool0, pool1, pool2 of buddy_disable.go: the Regions they hold *)
(*   live   the slices handed out by Malloc and not yet freed; a slice of  *)
(*          which a part was freed is replaced by its remaining parts      *)
(*   slast  the last call made on sma: its arguments, its results, the     *)
(*          number of Regions before it and, for Read, the number k of     *)
(*          bytes that the reader returned                                 *)
(*   calls  the size given to NewScalableMemoryAllocator followed by the   *)
(*          sizes of the Malloc calls, as long as nothing but Malloc was   *)
(*          called; <<>> afterwards                                        *)
(*   ncalls the number of Malloc and Borrow calls made                     *)
(*   ncuts  the number of Free calls that freed a live slice only in part  *)
(*   rm     the RecyclableMemory created on sma                            *)
(*   rlog   about rm: the last call made on it, for every segment of its   *)
(*          buffer the call that appended it and whether recycleIndexes    *)
(*          was nil then, the indexes of the segments the last Recycle     *)
(*          passed to Free, and the bytes in use on sma when rm was        *)
(*          created or last recycled                                       *)
(*   bd     the Buddy                                                      *)
(*   blive  the allocations of bd that are not freed: the offset returned, *)
(*          the size asked for and the thread that holds it (0 where a     *)
(*          single thread calls)                                           *)
(*   blast  the last call made on bd: its argument, its results and        *)
(*          longests before the call                                       *)
(*   block  bd.lock: the thread that holds it, 0 when it is free           *)
(*   bpc    for every thread, where it is in Alloc or Free                 *)
(*   bloc   for every thread, the local variables of its call              *)
(*   bds    the Buddies that buddyPool.New has made                        *)
(*   bpool  buddyPool: the Buddies that it holds                           *)
(*   fregs  the Regions made by the buddy-backed factory and not recycled  *)
(*   gcall  the call of GetMemoryAllocator (buddy_enable.go) in progress:  *)
(*          its size, the Buddies whose PutBuddy is deferred and the       *)
(*          number of Buddies that the pool held when it was called        *)
(*   mr     the MemoryReader                                               *)
(*   mout   the bytes that the Read calls on mr have returned, in order    *)
(*   mlast  the last call made on mr: len(buf), its results, r.Length      *)
(*          before it and the number of Read calls made                    *)
(*   al2    the Allocator of allocator_2tree.go, given the calls of al     *)
(*   used2  the outstanding allocations of al2                             *)
(*   last2  the last call made on al2 and what it returned                 *)
(***************************************************************************)
VARIABLES al, used, last, sma, pools, live, slast, calls, ncalls, ncuts, rm, rlog,
          bd, blive, blast, block, bpc, bloc, bds, bpool, fregs, gcall,
          mr, mout, mlast, al2, used2, last2

vars == <<al, used, last, sma, pools, live, slast, calls, ncalls, ncuts, rm, rlog,
          bd, blive, blast, block, bpc, bloc, bds, bpool, fregs, gcall,
          mr, mout, mlast, al2, used2, last2>>

avars == <<al, used, last>>

svars == <<sma, pools, live, slast, calls, ncalls, ncuts>>

rvars == <<rm, rlog>>

bvars == <<bd, blive, blast>>

cvars == <<block, bpc, bloc>>

fvars == <<bds, bpool, fregs, gcall>>

mvars == <<mr, mout, mlast>>

\* The variables of the Buddy, of what is built on it and of the reader.
tvars == <<al2, used2, last2>>

xvars == <<bvars, cvars, fvars, mvars, tvars>>

\* The variables that a call on the Buddy leaves alone.
brest == <<avars, svars, rvars, fvars, mvars, tvars>>

\* The variables that the buddy-backed factory leaves alone.
frest == <<avars, svars, rvars, bvars, cvars, mvars, tvars>>

\* The variables that a call on the reader leaves alone.
mrest == <<avars, svars, rvars, bvars, cvars, fvars, tvars>>

\* The variables that a call on both Allocators leaves alone.
trest == <<svars, rvars, bvars, cvars, fvars, mvars>>

NoCall == [op |-> "none", n |-> 0, off |-> 0, ret |-> 0, part |-> FALSE]

NoSCall ==
    [op |-> "none", n |-> 0, mem |-> NilSlice, ok |-> FALSE, nchild |-> 0, k |-> 0]

EmptyPools == [p \in PoolNames |-> {}]

InitAllocator ==
    /\ al = NewAllocator(AllocSize)
    /\ used = {}
    /\ last = NoCall

\* sma := NewScalableMemoryAllocator(size)
InitScalable(size) ==
    LET r == NewScalableMemoryAllocator(size, EmptyPools, NIL)
    IN  /\ sma = r.sma
        /\ pools = r.pools
        /\ live = {}
        /\ slast = NoSCall
        /\ calls = <<size>>
        /\ ncalls = 0
        /\ ncuts = 0

NoRCall == [op |-> "none", kinds |-> <<>>, freed |-> <<>>, base |-> 0]

\* rm := NewRecyclableMemory(sma)
InitRecyclable ==
    /\ rm = NewRecyclableMemory
    /\ rlog = NoRCall

NoBCall == [op |-> "none", n |-> 0, offset |-> 0, err |-> "nil", before |-> NewBuddy.longests]

\* bd := NewBuddy()
InitBuddy ==
    /\ bd = NewBuddy
    /\ blive = {}
    /\ blast = NoBCall

Threads == 1..NThreads

NoLocals == [n |-> 0, size |-> 0, offset |-> 0, index |-> 0, nodeSize |-> 0]

\* No thread is in a call.
InitThreads ==
    /\ block = 0
    /\ bpc = [t \in Threads |-> "idle"]
    /\ bloc = [t \in Threads |-> NoLocals]

NoGCall == [pc |-> "idle", size |-> 0, deferred |-> <<>>, pooled |-> 0]

\* buddyPool is empty and GetMemoryAllocator has not been called.
InitFactory ==
    /\ bds = <<>>
    /\ bpool = {}
    /\ fregs = {}
    /\ gcall = NoGCall

NoMCall == [op |-> "none", n |-> 0, actual |-> 0, err |-> "nil", before |-> 0, reads |-> 0]

\* mr := NewReadableBuffersFromBytes(b...)
InitReader(b) ==
    /\ mr = NewReadableBuffersFromBytes(b)
    /\ mout = <<>>
    /\ mlast = NoMCall

InitBuddies == InitBuddy /\ InitThreads /\ InitFactory

\* al2 := NewAllocator(AllocSize), built with the tag twotree
InitTwoTree ==
    /\ al2 = NewAllocator2(AllocSize)
    /\ used2 = {}
    /\ last2 = NoCall

InitX == InitBuddies /\ InitReader(<<>>) /\ InitTwoTree

\* The buffers given to NewReadableBuffersFromBytes: up to MaxSegs segments
\* of up to MaxSegLen bytes, the bytes being 1, 2, 3, ... in order.
SegmentLens == UNION {[1..k -> 0..MaxSegLen] : k \in 1..MaxSegs}

Numbered(lens) ==
    [i \in DOMAIN lens |-> [j \in 1..lens[i] |-> SumSeq(SubSeq(lens, 1, i - 1)) + j]]

InitM ==
    /\ InitAllocator /\ InitScalable(defaultBufSize) /\ InitRecyclable /\ InitBuddies
    /\ InitTwoTree
    /\ \E lens \in SegmentLens : InitReader(Numbered(lens))

InitA == InitAllocator /\ InitScalable(defaultBufSize) /\ InitRecyclable /\ InitX

Init ==
    InitAllocator /\ InitRecyclable /\ InitX /\ \E size \in InitSizes : InitScalable(size)

\* offset := al.Allocate(n), n >= 1
AAllocate(n) ==
    LET r == Allocator_Allocate(al, n)
    IN  /\ al' = r.a
        /\ used' = IF r.offset = NONE THEN used
                   ELSE used \cup {[off |-> r.offset, len |-> n]}
        /\ last' = [op |-> "Allocate", n |-> n, off |-> 0, ret |-> r.offset,
                    part |-> FALSE]
        /\ UNCHANGED <<svars, rvars, xvars>>

\* al.Free(u.off + i, n) for a part [i, i+n) of the outstanding piece u
AFree(u, i, n) ==
    /\ al' = Allocator_Free(al, u.off + i, n)
    /\ used' = (used \ {u})
                 \cup (IF i > 0 THEN {[off |-> u.off, len |-> i]} ELSE {})
                 \cup (IF i + n < u.len
                         THEN {[off |-> u.off + i + n, len |-> u.len - i - n]}
                       ELSE {})
    /\ last' = [op |-> "Free", n |-> n, off |-> u.off + i, ret |-> 0,
                part |-> n < u.len]
    /\ UNCHANGED <<svars, rvars, xvars>>

\* The choices of pool.Get() when a call of size n has to add a Region.
PickChoices(n) ==
    IF n > MaxBlockSize THEN {NIL}
    ELSE GetChoices(pools, Grow(sma.childSize, n))

\* memory := sma.Malloc(n), r being what Malloc returns and does
SMallocDo(n, pick, r) ==
    /\ ncalls < MaxCalls
    /\ n > MaxBlockSize => \A u \in live : u.ptr >= Stride
    /\ pick # NIL => Len(r.sma.children) > Len(sma.children)
    /\ sma' = r.sma
    /\ pools' = r.pools
    /\ live' = IF r.memory = NilSlice THEN live ELSE live \cup {r.memory}
    /\ slast' = [op |-> "Malloc", n |-> n, mem |-> r.memory, ok |-> TRUE,
                 nchild |-> Len(sma.children), k |-> 0]
    /\ calls' = IF calls = <<>> THEN <<>> ELSE Append(calls, n)
    /\ ncalls' = ncalls + 1
    /\ UNCHANGED <<ncuts, avars, xvars, rvars>>

SMalloc(n, pick) ==
    \E r \in {Scalable_Malloc(sma, pools, n, pick)} : SMallocDo(n, pick, r)

\* sma.Borrow(n), r being what Borrow returns and does
SBorrowDo(n, pick, r) ==
    /\ ncalls < MaxCalls
    /\ pick # NIL => Len(r.sma.children) > Len(sma.children)
    /\ sma' = r.sma
    /\ pools' = r.pools
    /\ slast' = [op |-> "Borrow", n |-> n, mem |-> r.memory, ok |-> TRUE,
                 nchild |-> Len(sma.children), k |-> 0]
    /\ calls' = <<>>
    /\ ncalls' = ncalls + 1
    /\ UNCHANGED <<live, ncuts, avars, xvars, rvars>>

SBorrow(n, pick) ==
    \E r \in {Scalable_Borrow(sma, pools, n, pick)} : SBorrowDo(n, pick, r)

\* The offsets at which a slice of length len may be cut.
CutPoints(len) == {0, len} \cup {c \in Cuts : c < len}

\* sma.Free(u[i:j]) for a live slice u, r being what Free returns and does;
\* a slice that is in no Region is passed whole and is dropped by the caller
\* afterwards.
SFreeDo(u, i, j, r) ==
    /\ u.ptr < Stride => (i = 0 /\ j = u.len)
    /\ (i > 0 \/ j < u.len) => ncuts < MaxCuts
    /\ ncuts' = IF i = 0 /\ j = u.len THEN ncuts ELSE ncuts + 1
    /\ sma' = r.sma
    /\ pools' = r.pools
    /\ live' = IF r.ret
                 THEN (live \ {u})
                        \cup (IF i > 0 THEN {[ptr |-> u.ptr, len |-> i]} ELSE {})
                        \cup (IF j < u.len
                                THEN {[ptr |-> u.ptr + j, len |-> u.len - j]}
                              ELSE {})
               ELSE live \ {u}
    /\ slast' = [op |-> "Free", n |-> j - i, mem |-> [ptr |-> u.ptr + i, len |-> j - i],
                 ok |-> r.ret, nchild |-> Len(sma.children), k |-> 0]
    /\ calls' = <<>>
    /\ UNCHANGED <<ncalls, avars, xvars, rvars>>

SFree(u, i, j) ==
    \E r \in {Scalable_Free(sma, pools, [ptr |-> u.ptr + i, len |-> j - i])} :
        SFreeDo(u, i, j, r)

\* The slices given to FreeRest as keep: a cut point, len or more than len.
Keeps(len) == CutPoints(len) \cup {len + 1}

\* sma.FreeRest(&u, keep) for a live slice u of a Region, r being what
\* FreeRest returns and does
SFreeRestDo(u, keep, r) ==
    /\ u.ptr >= Stride
    /\ (0 < keep /\ keep < u.len) => ncuts < MaxCuts
    /\ ncuts' = IF 0 < keep /\ keep < u.len THEN ncuts + 1 ELSE ncuts
    /\ sma' = r.sma
    /\ pools' = r.pools
    /\ live' = (live \ {u}) \cup (IF r.mem.len > 0 THEN {r.mem} ELSE {})
    /\ slast' = [op |-> "FreeRest", n |-> keep, mem |-> r.mem, ok |-> TRUE,
                 nchild |-> Len(sma.children), k |-> 0]
    /\ calls' = <<>>
    /\ UNCHANGED <<ncalls, avars, xvars, rvars>>

SFreeRest(u, keep) ==
    \E r \in {FreeRest(sma, pools, u, keep)} : SFreeRestDo(u, keep, r)

\* mem, err := sma.Read(reader, n) with a reader that returns (k, err), r
\* being what Read returns and does
SReadDo(n, k, err, r) ==
    /\ ncalls < MaxCalls
    /\ n > MaxBlockSize => \A u \in live : u.ptr >= Stride
    /\ sma' = r.sma
    /\ pools' = r.pools
    /\ live' = IF ~r.err /\ r.mem.len > 0 THEN live \cup {r.mem} ELSE live
    /\ slast' = [op |-> "Read", n |-> n, mem |-> r.mem, ok |-> ~r.err,
                 nchild |-> Len(sma.children), k |-> k]
    /\ calls' = <<>>
    /\ ncalls' = ncalls + 1
    /\ UNCHANGED <<ncuts, avars, xvars, rvars>>

SRead(n, k, err, pick) ==
    \E r \in {Scalable_Read(sma, pools, n, k, err, pick)} : SReadDo(n, k, err, r)

\* mem starts in no Region of sma.
InNoRegion(mem) ==
    \A i \in DOMAIN sma.children :
        mem.ptr < sma.children[i].start
          \/ mem.ptr >= sma.children[i].start + sma.children[i].Size

\* mem starts in a Region of sma and ends after the end of that Region.
PastRegionEnd(mem) ==
    \E i \in DOMAIN sma.children :
        /\ mem.ptr >= sma.children[i].start
        /\ mem.ptr < sma.children[i].start + sma.children[i].Size
        /\ mem.ptr + mem.len > sma.children[i].start + sma.children[i].Size

\* Slices that are no allocation of sma: a slice of the heap, and around the
\* end of every Region.
ForeignSlices ==
    {[ptr |-> HeapAddr, len |-> 1024]}
      \cup {[ptr |-> sma.children[i].start + sma.children[i].Size, len |-> 1024] :
               i \in DOMAIN sma.children}
      \cup {[ptr |-> sma.children[i].start + sma.children[i].Size - 1, len |-> 2] :
               i \in DOMAIN sma.children}

\* sma.Free(mem) for a slice that is no allocation of sma, r being what Free
\* returns and does
SFreeForeignDo(mem, r) ==
    /\ InNoRegion(mem) \/ PastRegionEnd(mem)
    /\ sma' = r.sma
    /\ pools' = r.pools
    /\ slast' = [op |-> "Free", n |-> mem.len, mem |-> mem, ok |-> r.ret,
                 nchild |-> Len(sma.children), k |-> 0]
    /\ calls' = <<>>
    /\ UNCHANGED <<live, ncalls, ncuts, avars, xvars, rvars>>

SFreeForeign(mem) ==
    \E r \in {Scalable_Free(sma, pools, mem)} : SFreeForeignDo(mem, r)

\* The bytes in use on the Scalable s.
InUse(s) == s.totalMalloc - s.totalFree

\* What rlog keeps about a segment: the call that appends it, and whether rm
\* has recycleIndexes at that call.
Appended(op) == [by |-> op, indexed |-> ~rm.recycleIndexes.nil]

\* memory := rm.NextN(n), r being what NextN returns and does
RNextNDo(n, pick, r) ==
    /\ ncalls < MaxCalls
    /\ Len(rm.Buffers) < MaxSegs
    /\ pick # NIL => Len(r.sma.children) > Len(sma.children)
    /\ rm' = r.rm
    /\ sma' = r.sma
    /\ pools' = r.pools
    /\ live' = live \cup {r.memory}
    /\ rlog' = [rlog EXCEPT !.op = "NextN", !.kinds = Append(@, Appended("NextN"))]
    /\ slast' = [op |-> "Malloc", n |-> n, mem |-> r.memory, ok |-> TRUE,
                 nchild |-> Len(sma.children), k |-> 0]
    /\ calls' = <<>>
    /\ ncalls' = ncalls + 1
    /\ UNCHANGED <<ncuts, avars, xvars>>

RNextN(n, pick) ==
    \E r \in {NextN(rm, sma, pools, n, pick)} : RNextNDo(n, pick, r)

\* Bytes that are no allocation of sma.
ExternalBytes == {[ptr |-> HeapAddr, len |-> 1024]}

\* rm.AddRecycleBytes(b)
RAddRecycleBytes(b) ==
    /\ Len(rm.Buffers) < MaxSegs
    /\ rm' = AddRecycleBytes(rm, b)
    /\ rlog' = [rlog EXCEPT !.op = "AddRecycleBytes",
                             !.kinds = Append(@, Appended("AddRecycleBytes"))]
    /\ UNCHANGED <<svars, avars, xvars>>

\* rm.PushOne(b), the method of the embedded Memory
RPushOne(b) ==
    /\ Len(rm.Buffers) < MaxSegs
    /\ rm' = Memory_PushOne(rm, b)
    /\ rlog' = [rlog EXCEPT !.op = "PushOne", !.kinds = Append(@, Appended("PushOne"))]
    /\ UNCHANGED <<svars, avars, xvars>>

\* rm.InitRecycleIndexes(max)
RInitRecycleIndexes ==
    /\ rm' = InitRecycleIndexes(rm)
    /\ rlog' = [rlog EXCEPT !.op = "InitRecycleIndexes"]
    /\ UNCHANGED <<svars, avars, xvars>>

\* rm.Recycle(), r being what Recycle returns and does
RRecycleDo(order, r) ==
    /\ rm' = r.rm
    /\ sma' = r.fr.sma
    /\ pools' = r.fr.pools
    /\ live' = live \ {rm.Buffers[order[k] + 1] : k \in DOMAIN order}
    /\ rlog' = [op |-> "Recycle", kinds |-> <<>>, freed |-> order,
                base |-> InUse(r.fr.sma)]
    /\ slast' = NoSCall
    /\ calls' = <<>>
    /\ UNCHANGED <<ncalls, ncuts, avars, xvars>>

RRecycle == \E r \in {Recycle(rm, sma, pools)} : RRecycleDo(RecycleOrder(rm), r)

\* The sizes given to Buddy.Alloc.
BuddyAllocSizes == {0 - 1, 0, 1073741825} \cup (1..(NewBuddy.size + 1))

\* The offsets given to Buddy.Free that are no offsets of the Buddy.
BuddyBadOffsets == {0 - 1, NewBuddy.size, NewBuddy.size + 1}

\* offset, err := bd.Alloc(n), r being what Alloc returns and does
BAllocDo(n, r) ==
    /\ bd' = r.b
    /\ blive' = IF r.err = "nil" THEN blive \cup {[off |-> r.offset, n |-> n, by |-> 0]}
                ELSE blive
    /\ blast' = [op |-> "Alloc", n |-> n, offset |-> r.offset, err |-> r.err,
                 before |-> bd.longests]
    /\ UNCHANGED <<brest, cvars>>

BAlloc(n) == \E r \in {Buddy_Alloc(bd, n)} : BAllocDo(n, r)

\* err := bd.Free(offset), r being what Free returns and does
BFreeDo(offset, r) ==
    /\ bd' = r.b
    /\ blive' = IF r.err = "nil" THEN {u \in blive : u.off # offset} ELSE blive
    /\ blast' = [op |-> "Free", n |-> 0, offset |-> offset, err |-> r.err,
                 before |-> bd.longests]
    /\ UNCHANGED <<brest, cvars>>

BFree(offset) == \E r \in {Buddy_Free(bd, offset)} : BFreeDo(offset, r)

BAllocStep == \E n \in BuddyAllocSizes : BAlloc(n)

BFreeStep == \E u \in blive : BFree(u.off)

BFreeBadStep == \E offset \in BuddyBadOffsets : BFree(offset)

\* err := bd.Free(offset) for any offset from 0 to size - 1, r being what
\* Free returns and does; the allocation whose block it releases is live no
\* more.
BFreeAtDo(offset, r) ==
    /\ bd' = r.b
    /\ blive' = IF r.err = "nil"
                  THEN {u \in blive :
                          offset < u.off \/ offset >= u.off + AllocSizeOf(u.n)}
                ELSE blive
    /\ blast' = [op |-> "Free", n |-> 0, offset |-> offset, err |-> r.err,
                 before |-> bd.longests]
    /\ UNCHANGED <<brest, cvars>>

BFreeAt(offset) == \E r \in {Buddy_Free(bd, offset)} : BFreeAtDo(offset, r)

BFreeAtStep == \E offset \in 0..(NewBuddy.size - 1) : BFreeAt(offset)

\* The sizes that the threads give to Alloc.
ThreadAllocSizes == {1, 2, 3, NewBuddy.size}

\* Thread t returns from its call; the deferred b.lock.Unlock() runs.
Return(t) ==
    /\ block' = 0
    /\ bpc' = [bpc EXCEPT ![t] = "idle"]
    /\ bloc' = [bloc EXCEPT ![t] = NoLocals]

\* Thread t calls bd.Alloc(n), n >= 1, and gets as far as b.lock.Lock().
CAllocCall(t, n) ==
    /\ bpc[t] = "idle"
    /\ Cardinality({u \in blive : u.by = t}) < MaxHeld
    /\ n > 0
    /\ bpc' = [bpc EXCEPT ![t] = "alloc_lock"]
    /\ bloc' = [bloc EXCEPT ![t] = [NoLocals EXCEPT !.n = n, !.size = AllocSizeOf(n)]]
    /\ UNCHANGED <<bvars, block, brest>>

\* Thread t calls bd.Free(u.off) for an allocation u that it holds, and gets
\* as far as b.lock.Lock().
CFreeCall(t, u) ==
    /\ bpc[t] = "idle"
    /\ u.by = t
    /\ ~(u.off < 0 \/ u.off >= bd.size)
    /\ blive' = blive \ {u}
    /\ bpc' = [bpc EXCEPT ![t] = "free_lock"]
    /\ bloc' = [bloc EXCEPT ![t] = [NoLocals EXCEPT !.offset = u.off]]
    /\ UNCHANGED <<bd, blast, block, brest>>

\* b.lock.Lock() that does not wait for the lock.
BLock_NoWait(t) ==
    /\ bpc[t] \in {"alloc_lock", "free_lock"}
    /\ block' = t
    /\ bpc' = [bpc EXCEPT ![t] = IF bpc[t] = "alloc_lock" THEN "alloc_find"
                                  ELSE "free_climb"]
    /\ UNCHANGED <<bvars, bloc, brest>>

\* b.lock.Lock() of thread t, in Alloc or in Free
BLock(t) ==
    /\ bpc[t] \in {"alloc_lock", "free_lock"}
    /\ block = 0
    /\ block' = t
    /\ bpc' = [bpc EXCEPT ![t] = IF bpc[t] = "alloc_lock" THEN "alloc_find"
                                  ELSE "free_climb"]
    /\ UNCHANGED <<bvars, bloc, brest>>

\* Thread t in Alloc, with the lock: the test of longests[0] and the descent
\* to the node to mark.
CAllocFind(t) ==
    /\ bpc[t] = "alloc_find"
    /\ IF bloc[t].size > bd.longests[0] THEN Return(t)
       ELSE LET index == AllocDescend(bd, 0, bd.size, bloc[t].size)
            IN  IF index = NONE THEN Return(t)
                ELSE /\ bpc' = [bpc EXCEPT ![t] = "alloc_mark"]
                     /\ bloc' = [bloc EXCEPT ![t].index = index]
                     /\ UNCHANGED block
    /\ UNCHANGED <<bvars, brest>>

\* Thread t in Alloc, with the lock: the node is marked, its ancestors are
\* updated and Alloc returns the offset.
CAllocMark(t) ==
    /\ bpc[t] = "alloc_mark"
    /\ \E r \in {AllocMark(bd, bloc[t].index, bloc[t].size)} :
           /\ bd' = r.b
           /\ blive' = blive \cup {[off |-> r.offset, n |-> bloc[t].n, by |-> t]}
    /\ Return(t)
    /\ UNCHANGED <<blast, brest>>

\* Thread t in Free, with the lock: the climb to the allocated node.
CFreeClimb(t) ==
    /\ bpc[t] = "free_climb"
    /\ \E c \in {FreeClimb(bd, bloc[t].offset + bd.size - 1, 1)} :
           IF c.index = NONE THEN Return(t)
           ELSE /\ bpc' = [bpc EXCEPT ![t] = "free_update"]
                /\ bloc' = [bloc EXCEPT ![t].index = c.index, ![t].nodeSize = c.nodeSize]
                /\ UNCHANGED block
    /\ UNCHANGED <<bvars, brest>>

\* Thread t in Free, with the lock: the node is freed, its ancestors are
\* updated and Free returns.
CFreeUpdate(t) ==
    /\ bpc[t] = "free_update"
    /\ bd' = [bd EXCEPT !.longests =
                 FreeUpdate([@ EXCEPT ![bloc[t].index] = bloc[t].nodeSize],
                            bloc[t].index, bloc[t].nodeSize)]
    /\ Return(t)
    /\ UNCHANGED <<blive, blast, brest>>

CAllocCallStep == \E t \in Threads : \E n \in ThreadAllocSizes : CAllocCall(t, n)

CFreeCallStep == \E t \in Threads : \E u \in blive : CFreeCall(t, u)

BLockStep == \E t \in Threads : BLock(t)

CAllocFindStep == \E t \in Threads : CAllocFind(t)

CAllocMarkStep == \E t \in Threads : CAllocMark(t)

CFreeClimbStep == \E t \in Threads : CFreeClimb(t)

CFreeUpdateStep == \E t \in Threads : CFreeUpdate(t)

\* The sizes given to GetMemoryAllocator of buddy_enable.go, all < BuddySize.
FactorySizes == {1000, 1024, 2048, 3000}

\* ret := GetMemoryAllocator(size) is called and reaches its loop.
FGet(size) ==
    /\ gcall.pc = "idle"
    /\ size < BuddySize
    /\ Cardinality(fregs) < MaxRegions
    /\ gcall' = [pc |-> "loop", size |-> size, deferred |-> <<>>,
                 pooled |-> Cardinality(bpool)]
    /\ UNCHANGED <<bds, bpool, fregs, frest>>

\* One turn of the loop of GetMemoryAllocator, t being what it does with the
\* Buddy id got from the pool: on success the Region is returned and the
\* deferred PutBuddy calls run.
FTryDo(id, t) ==
    /\ bds' = IF id \in DOMAIN bds THEN [bds EXCEPT ![id] = t.b] ELSE Append(bds, t.b)
    /\ IF t.err = "nil"
         THEN /\ fregs' = fregs \cup {t.ret}
              /\ bpool' = (bpool \ {id}) \cup Range(gcall.deferred) \cup {id}
              /\ gcall' = NoGCall
       ELSE /\ fregs' = fregs
            /\ bpool' = bpool \ {id}
            /\ gcall' = [gcall EXCEPT !.deferred = Append(@, id)]
    /\ UNCHANGED frest

\* buddyPool.Get() hands out a Buddy that the pool holds.
FTryPooled(id) ==
    /\ gcall.pc = "loop"
    /\ id \in bpool
    /\ \E t \in {GetMemoryAllocator_try(gcall.size, bds, id)} : FTryDo(id, t)

\* buddyPool.Get() calls New.
FTryNew ==
    /\ gcall.pc = "loop"
    /\ Len(bds) < MaxBuddies
    /\ \E t \in {GetMemoryAllocator_try(gcall.size, Append(bds, NewBuddy), Len(bds) + 1)} :
           FTryDo(Len(bds) + 1, t)

\* ma.Recycle() for a Region of the buddy-backed factory
FRecycle(ma) ==
    /\ gcall.pc = "idle"
    /\ bds' = [bds EXCEPT ![ma.recycle.buddy] = recycle_buddy(ma, bds)]
    /\ fregs' = fregs \ {ma}
    /\ UNCHANGED <<bpool, gcall, frest>>

FGetStep == \E size \in FactorySizes : FGet(size)

FTryPooledStep == \E id \in bpool : FTryPooled(id)

FRecycleStep == \E ma \in fregs : FRecycle(ma)

\* The Regions of sma that have outstanding allocations and two free blocks
\* or more.
Fragmented ==
    {i \in DOMAIN sma.children :
        /\ GetFreeSize(sma.children[i].allocator) < sma.children[i].Size
        /\ Len(GetBlocks(sma.children[i].allocator)) >= 2}

\* sma.Recycle(), r being what it returns and does; the slices of sma are
\* live no more.  slast keeps the slab of a Region that is recycled while it
\* is fragmented, and the number of slices that were live.
SRecycleDo(r) ==
    /\ sma.children # <<>>
    /\ sma' = r.sma
    /\ pools' = r.pools
    /\ live' = {}
    /\ slast' = [op |-> "Recycle", n |-> 0,
                 mem |-> IF Fragmented = {} THEN NilSlice
                         ELSE [ptr |-> sma.children[SetMin(Fragmented)].start,
                               len |-> sma.children[SetMin(Fragmented)].Size],
                 ok |-> TRUE, nchild |-> Len(sma.children), k |-> Cardinality(live)]
    /\ calls' = <<>>
    /\ UNCHANGED <<ncalls, ncuts, avars, rvars, xvars>>

SRecycle == \E r \in {Scalable_Recycle(sma, pools)} : SRecycleDo(r)

\* The sizes given to NewScalableMemoryAllocator after a Recycle.
NewSizes == {2 ^ MinPowerOf2, 2 ^ (MinPowerOf2 + 2)}

\* sma = NewScalableMemoryAllocator(size) once the Scalable before it has
\* been recycled, r being what it returns and does.  slast keeps whether the
\* pool handed out a Region, and what the Recycle just before it has left.
SNewDo(size, pick, r) ==
    /\ sma.children = <<>>
    /\ ncalls < MaxCalls
    /\ ncalls' = ncalls + 1
    /\ sma' = r.sma
    /\ pools' = r.pools
    /\ slast' = [op |-> "New", n |-> size,
                 mem |-> IF slast.op = "Recycle" THEN slast.mem ELSE NilSlice,
                 ok |-> pick # NIL, nchild |-> 0,
                 k |-> IF slast.op = "Recycle" THEN slast.k ELSE 0]
    /\ calls' = <<>>
    /\ UNCHANGED <<live, ncuts, avars, rvars, xvars>>

SNew(size, pick) ==
    \E r \in {NewScalableMemoryAllocator(size, pools, pick)} : SNewDo(size, pick, r)

SNewStep == \E size \in NewSizes : \E pick \in GetChoices(pools, size) : SNew(size, pick)

\* The lengths of the destination buffers given to Read.
BufSizes == 1..(2 * MaxSegLen + 1)

\* actual, err := mr.Read(buf) with len(buf) = n, r being what Read returns
\* and does
MReadDo(n, r) ==
    /\ mlast.err = "nil"
    /\ mr' = r.r
    /\ mout' = mout \o SubSeq(r.buf, 1, r.actual)
    /\ mlast' = [op |-> "Read", n |-> n, actual |-> r.actual, err |-> r.err,
                 before |-> mr.Length, reads |-> mlast.reads + 1]
    /\ UNCHANGED mrest

MRead(n) == \E r \in {MemoryReader_Read(mr, n)} : MReadDo(n, r)

MReadStep == \E n \in BufSizes : MRead(n)

\* The numbers of bytes given to Skip.
SkipSizes == 0..(MaxSegLen + 2)

\* err := mr.Skip(n), r being what Skip returns and does
MSkipDo(n, r) ==
    /\ mlast.err = "nil"
    /\ mr' = r.r
    /\ mlast' = [op |-> "Skip", n |-> n, actual |-> 0, err |-> r.err,
                 before |-> mr.Length, reads |-> mlast.reads]
    /\ UNCHANGED <<mout, mrest>>

MSkip(n) == \E r \in {MemoryReader_Skip(mr, n)} : MSkipDo(n, r)

MSkipStep == \E n \in SkipSizes : MSkip(n)

\* b, err := mr.ReadByte(), r being what ReadByte returns and does
MReadByteDo(r) ==
    /\ mlast.err = "nil"
    /\ mr' = r.r
    /\ mout' = IF r.err = "nil" THEN Append(mout, r.b) ELSE mout
    /\ mlast' = [op |-> "ReadByte", n |-> 1, actual |-> r.b, err |-> r.err,
                 before |-> mr.Length, reads |-> mlast.reads + 1]
    /\ UNCHANGED mrest

MReadByte == \E r \in {MemoryReader_ReadByte(mr)} : MReadByteDo(r)

\* The segments given to the methods of Memory: slices of 0..MaxSegLen
\* bytes outside every Region.
MemorySegments == {[ptr |-> HeapAddr, len |-> k] : k \in 0..MaxSegLen}

\* The Memory values given to Append: of one segment or of none.
AppendedMemories ==
    {[Buffers |-> <<>>, Size |-> 0]} \cup
    {[Buffers |-> <<b>>, Size |-> b.len] : b \in MemorySegments}

\* rm.Memory = NewMemory(buf)
WNewMemory(buf) ==
    /\ rm' = NewMemory(rm, buf)
    /\ rlog' = [rlog EXCEPT !.op = "NewMemory"]
    /\ UNCHANGED <<svars, avars, xvars>>

\* rm.PushOne(b)
WPushOne(b) ==
    /\ Len(rm.Buffers) < MaxSegs
    /\ rm' = Memory_PushOne(rm, b)
    /\ rlog' = [rlog EXCEPT !.op = "PushOne"]
    /\ UNCHANGED <<svars, avars, xvars>>

\* rm.Push(b, c)
WPush(b, c) ==
    /\ Len(rm.Buffers) + 1 < MaxSegs
    /\ rm' = Memory_Push(rm, <<b, c>>)
    /\ rlog' = [rlog EXCEPT !.op = "Push"]
    /\ UNCHANGED <<svars, avars, xvars>>

\* rm.Append(mm)
WAppend(mm) ==
    /\ Len(rm.Buffers) < MaxSegs
    /\ rm' = Memory_Append(rm, mm)
    /\ rlog' = [rlog EXCEPT !.op = "Append"]
    /\ UNCHANGED <<svars, avars, xvars>>

\* rm.UpdateBuffer(index, buf)
WUpdateBuffer(index, buf) ==
    /\ rm' = Memory_UpdateBuffer(rm, index, buf)
    /\ rlog' = [rlog EXCEPT !.op = "UpdateBuffer"]
    /\ UNCHANGED <<svars, avars, xvars>>

\* rm.Reset()
WReset ==
    /\ rm' = Memory_Reset(rm)
    /\ rlog' = [rlog EXCEPT !.op = "Reset"]
    /\ UNCHANGED <<svars, avars, xvars>>

WNewMemoryStep == \E buf \in MemorySegments : WNewMemory(buf)

WPushOneStep == \E b \in MemorySegments : WPushOne(b)

WPushStep == \E b, c \in MemorySegments : WPush(b, c)

WAppendStep == \E mm \in AppendedMemories : WAppend(mm)

WUpdateBufferStep ==
    \E index \in (0 - MaxSegs)..(MaxSegs - 1) : \E buf \in MemorySegments :
        WUpdateBuffer(index, buf)

\* al.Allocate(n) and al2.Allocate(n), r and r2 being what they return and do
TAllocateDo(n, r, r2) ==
    /\ al' = r.a
    /\ used' = IF r.offset = NONE THEN used
               ELSE used \cup {[off |-> r.offset, len |-> n]}
    /\ last' = [op |-> "Allocate", n |-> n, off |-> 0, ret |-> r.offset,
                part |-> FALSE]
    /\ al2' = r2.a
    /\ used2' = IF r2.offset = NONE THEN used2
                ELSE used2 \cup {[off |-> r2.offset, len |-> n]}
    /\ last2' = [op |-> "Allocate", n |-> n, off |-> 0, ret |-> r2.offset,
                 part |-> FALSE]
    /\ UNCHANGED trest

TAllocate(n) ==
    \E r \in {Allocator_Allocate(al, n)} : \E r2 \in {Allocator_Allocate2(al2, n)} :
        TAllocateDo(n, r, r2)

\* al.Find(n) and al2.Find(n)
TFind(n) ==
    /\ last' = [op |-> "Find", n |-> n, off |-> 0, ret |-> Allocator_Find(al, n),
                part |-> FALSE]
    /\ last2' = [op |-> "Find", n |-> n, off |-> 0, ret |-> Allocator_Find2(al2, n),
                 part |-> FALSE]
    /\ UNCHANGED <<al, used, al2, used2, trest>>

\* al.Free(u.off, u.len) and al2.Free(u.off, u.len), u being outstanding in
\* both
TFree(u) ==
    /\ al' = Allocator_Free(al, u.off, u.len)
    /\ used' = used \ {u}
    /\ last' = [op |-> "Free", n |-> u.len, off |-> u.off, ret |-> 0, part |-> FALSE]
    /\ al2' = Allocator_Free2(al2, u.off, u.len)
    /\ used2' = used2 \ {u}
    /\ last2' = [op |-> "Free", n |-> u.len, off |-> u.off, ret |-> 0, part |-> FALSE]
    /\ UNCHANGED trest

\* The same calls are made on al and al2 as long as both hold the same
\* outstanding allocations, every Free then being valid for both.
TAllocateStep == used = used2 /\ \E n \in 1..AllocSize : TAllocate(n)

TFindStep == used = used2 /\ \E n \in 1..AllocSize : TFind(n)

TFreeStep == used = used2 /\ \E u \in used : TFree(u)

\* mem lies in a Region of sma and shares no byte with a live allocation.
NotAllocated(mem) ==
    /\ \E i \in DOMAIN sma.children :
           /\ mem.ptr >= sma.children[i].start
           /\ mem.ptr + mem.len <= sma.children[i].start + sma.children[i].Size
    /\ \A u \in live : u.ptr + u.len <= mem.ptr \/ mem.ptr + mem.len <= u.ptr

\* Slices of the Regions of sma that may be given to Free a second time.
FreedSlices ==
    {[ptr |-> sma.children[i].start + off, len |-> n] :
        i \in DOMAIN sma.children, off \in {0} \cup Cuts, n \in {1024, 2048}}

\* sma.Free(mem) for a slice of which no byte is allocated, r being what Free
\* returns and does
SFreeAgainDo(mem, r) ==
    /\ NotAllocated(mem)
    /\ ncalls < MaxCalls
    /\ sma' = r.sma
    /\ pools' = r.pools
    /\ slast' = [op |-> "Free", n |-> mem.len, mem |-> mem, ok |-> r.ret,
                 nchild |-> Len(sma.children), k |-> 0]
    /\ calls' = <<>>
    /\ ncalls' = ncalls + 1
    /\ UNCHANGED <<live, ncuts, avars, xvars, rvars>>

SFreeAgain(mem) ==
    \E r \in {Scalable_Free(sma, pools, mem)} : SFreeAgainDo(mem, r)

SFreeAgainStep == \E mem \in FreedSlices : SFreeAgain(mem)

NextA ==
    \/ \E n \in 1..AllocSize : AAllocate(n)
    \/ \E u \in used : \E i \in 0..(u.len - 1) : \E n \in 1..(u.len - i) : AFree(u, i, n)

SFreeStep ==
    \E u \in live : \E i, j \in CutPoints(u.len) : i < j /\ SFree(u, i, j)

SMallocStep == \E n \in RequestSizes : \E pick \in PickChoices(n) : SMalloc(n, pick)

SBorrowStep == \E n \in RequestSizes : \E pick \in PickChoices(n) : SBorrow(n, pick)

SFreeRestStep == \E u \in live : \E keep \in Keeps(u.len) : SFreeRest(u, keep)

SReadStep ==
    \E n \in ReadSizes : \E k \in CutPoints(n) : \E err \in BOOLEAN :
        \E pick \in PickChoices(n) : (err => k = 0) /\ SRead(n, k, err, pick)

SFreeForeignStep == \E mem \in ForeignSlices : SFreeForeign(mem)

SMallocSmallStep == \E n \in SmallSizes : \E pick \in PickChoices(n) : SMalloc(n, pick)

RNextNStep == \E n \in SmallSizes : \E pick \in PickChoices(n) : RNextN(n, pick)

RAddRecycleBytesStep == \E b \in ExternalBytes : RAddRecycleBytes(b)

RPushOneStep == \E b \in ExternalBytes : RPushOne(b)

Next == SMallocStep \/ SFreeStep

NextB == SMallocStep \/ SFreeStep \/ SBorrowStep

NextC ==
    SMallocSmallStep \/ SFreeStep \/ SFreeRestStep \/ SReadStep \/ SFreeForeignStep

NextR ==
    \/ RNextNStep
    \/ RAddRecycleBytesStep
    \/ RPushOneStep
    \/ RInitRecycleIndexes
    \/ RRecycle

NextBd == BAllocStep \/ BFreeStep \/ BFreeBadStep

NextBc ==
    \/ CAllocCallStep
    \/ CFreeCallStep
    \/ BLockStep
    \/ CAllocFindStep
    \/ CAllocMarkStep
    \/ CFreeClimbStep
    \/ CFreeUpdateStep

\* The Allocator alone, under Allocate and Free.
SpecA == InitA /\ [][NextA]_vars

\* The Allocator of TreapSize units under Allocate and Free of whole pieces.
InitH ==
    /\ al = NewAllocator(TreapSize)
    /\ used = {}
    /\ last = NoCall
    /\ InitScalable(defaultBufSize)
    /\ InitRecyclable
    /\ InitX

\* The sizes given to Allocate under SpecH.
TreapSizes == 1..2

NextH ==
    \/ \E n \in TreapSizes : AAllocate(n)
    \/ \E u \in used : AFree(u, 0, u.len)

SpecH == InitH /\ [][NextH]_vars

\* The Scalable under Malloc and Free.
Spec == Init /\ [][Next]_vars

\* The Scalable under Malloc, Borrow and Free.
SpecB == Init /\ [][NextB]_vars

\* The Scalable under Malloc, Free, FreeRest and Read, Free being called with
\* slices that are no allocation of the Scalable too.
SpecC == Init /\ [][NextC]_vars

\* The RecyclableMemory, alone on its Scalable.
SpecR == Init /\ [][NextR]_vars

NextP == SMallocStep \/ SFreeStep \/ SRecycle \/ SNewStep

NextM == MReadStep

NextF == FGetStep \/ FTryPooledStep \/ FTryNew \/ FRecycleStep

\* One Buddy under Alloc, and under Free of the offsets that Alloc returned
\* and of offsets out of range, called by a single thread.
SpecBd == InitA /\ [][NextBd]_vars

\* One Buddy shared by threads that call Alloc and Free, a step being what a
\* thread does between two points at which another thread may run.
SpecBc == InitA /\ [][NextBc]_vars

\* The Scalable under Malloc and Free, recycled and made anew from the pooled
\* region factory.
SpecP == Init /\ [][NextP]_vars

\* The buddy-backed region factory: GetMemoryAllocator, a step being a turn
\* of its loop, and Recycle of the Regions it has made.
SpecF == InitA /\ [][NextF]_vars

\* A MemoryReader over a buffer of several segments, read until EOF.
SpecM == InitM /\ [][NextM]_vars

NextW ==
    WNewMemoryStep \/ WPushOneStep \/ WPushStep \/ WAppendStep \/ WUpdateBufferStep \/ WReset

SpecW == InitA /\ [][NextW]_vars

NextBf == BAllocStep \/ BFreeAtStep

SpecBf == InitA /\ [][NextBf]_vars

NextD == SMallocStep \/ SFreeStep \/ SFreeAgainStep

SpecD == Init /\ [][NextD]_vars

NextT == TAllocateStep \/ TFindStep \/ TFreeStep

SpecT == InitA /\ [][NextT]_vars

NextK == MSkipStep \/ MReadByte

SpecK == InitM /\ [][NextK]_vars

(***************************************************************************)
(* Properties of the free-region index (SpecA).                            *)
(***************************************************************************)
Size(b) == b.End - b.Start

UsedBytes == LET RECURSIVE sum(_)
                 sum(S) == IF S = {} THEN 0
                           ELSE LET u == CHOOSE u \in S : TRUE
                                IN  u.len + sum(S \ {u})
             IN  sum(used)

\* C1: Allocate(n), n >= 1, returns -1 if and only if no free block of
\* size >= n exists in the state it is called in.
C1_AllocateNoneIffNoFit ==
    [][last'.op = "Allocate" =>
          ((last'.ret = NONE)
             <=> (\A b \in Range(GetBlocks(al)) : Size(b) < last'.n))]_vars

\* C2: a successful Allocate(n) returns the start of a free block of the
\* smallest size >= n and, among the free blocks of that size, of the one
\* with the smallest start.
C2_BestFit ==
    [][(last'.op = "Allocate" /\ last'.ret # NONE) =>
          LET fit == {b \in Range(GetBlocks(al)) : Size(b) >= last'.n}
              best == SetMin({Size(b) : b \in fit})
          IN  \E b \in fit :
                  /\ b.Start = last'.ret
                  /\ Size(b) = best
                  /\ \A c \in fit : Size(c) = best => b.Start <= c.Start]_vars

\* C5: after every Allocate and every Free of an outstanding piece or of a
\* part of one, GetFreeSize() plus the outstanding bytes equals Size.
C5_Conservation == GetFreeSize(al) + UsedBytes = al.Size

\* A prefix of an outstanding piece was freed and the rest is outstanding.
C5_Witness ==
    /\ last.op = "Free"
    /\ last.part
    /\ \E u \in used : u.off = last.off + last.n

\* C6: GetBlocks() is strictly increasing in Start, every block has
\* Start < End, and consecutive blocks a, b have a.End < b.Start.
C6_BlocksDisjointNonAdjacent ==
    LET b == GetBlocks(al)
    IN  /\ \A i \in DOMAIN b : b[i].Start < b[i].End
        /\ \A i \in DOMAIN b : i < Len(b) =>
              /\ b[i].Start < b[i + 1].Start
              /\ b[i].End < b[i + 1].Start

\* A Free left three free blocks.
C6_Witness == last.op = "Free" /\ Len(GetBlocks(al)) >= 3

\* C7: once every outstanding allocation has been freed, GetFreeSize() is
\* Size, GetBlocks() is the one block [0, Size) and Allocate(Size) returns 0.
C7_AllFreedCoalesces ==
    used = {} =>
        /\ GetFreeSize(al) = al.Size
        /\ GetBlocks(al) = <<[Start |-> 0, End |-> al.Size]>>
        /\ Allocator_Allocate(al, al.Size).offset = 0

\* The last outstanding bytes lay between two free blocks.
C7_Witness ==
    used = {} /\ last.op = "Free" /\ last.off > 0 /\ last.off + last.n < al.Size

(***************************************************************************)
(* Properties of the Scalable (Spec, SpecB).                               *)
(***************************************************************************)
Disjoint(u, v) == u.ptr + u.len <= v.ptr \/ v.ptr + v.len <= u.ptr

Inside(mem, child) ==
    child.start <= mem.ptr /\ mem.ptr + mem.len <= child.start + child.Size

RegionSizes == [i \in DOMAIN sma.children |-> sma.children[i].Size]

RegionFree == [i \in DOMAIN sma.children |-> GetFreeSize(sma.children[i].allocator)]

\* C3: no two live allocations share a byte, and every slice returned by
\* Malloc is disjoint from every allocation live when Malloc is called.
C3_NonOverlap ==
    /\ [](\A u, v \in live : u # v => Disjoint(u, v))
    /\ [][slast'.op = "Malloc" => \A u \in live : Disjoint(u, slast'.mem)]_vars

\* After a Free of a part of a slice, Malloc returned bytes next to a slice
\* that is still live.
C3_Witness ==
    /\ slast.op = "Malloc"
    /\ ncuts > 0
    /\ \E u \in live : slast.mem.ptr + slast.mem.len = u.ptr

\* C4: totalMalloc - totalFree equals the sizes of the live Regions minus
\* their free sizes.
C4_ScalableConservation ==
    sma.totalMalloc - sma.totalFree = SumSeq(RegionSizes) - SumSeq(RegionFree)

\* A Free dropped a Region while other slices are live.
C4_Witness ==
    /\ slast.op = "Free"
    /\ Len(sma.children) < slast.nchild
    /\ live # {}

\* C8: Malloc(n), 1 <= n <= MaxBlockSize, returns a slice of length n inside
\* one live Region; a Region it adds is at least n bytes and serves it.
C8_MallocServes ==
    (slast.op = "Malloc" /\ slast.n <= MaxBlockSize) =>
        /\ slast.mem # NilSlice
        /\ slast.mem.len = slast.n
        /\ \E i \in DOMAIN sma.children : Inside(slast.mem, sma.children[i])
        /\ Len(sma.children) > slast.nchild =>
              LET child == sma.children[Len(sma.children)]
              IN  child.Size >= slast.n /\ Inside(slast.mem, child)

\* Malloc(MaxBlockSize) added a Region.
C8_Witness ==
    /\ slast.op = "Malloc"
    /\ slast.n = MaxBlockSize
    /\ Len(sma.children) > slast.nchild

S3Calls == <<1024, 1024, 1024, 3000>>

\* C9 as stated: after NewScalable(1024), Malloc(1024), Malloc(1024),
\* Malloc(3000) there are 2 Regions and the second has size 4096.
C9_TwoRegions ==
    calls = S3Calls => Len(sma.children) = 2 /\ sma.children[2].Size = 4096

\* C9 amended: after NewScalable(1024), Malloc(1024), Malloc(1024),
\* Malloc(3000) there are 3 Regions, of sizes 1024, 2048 and 4096.
C9_ThreeRegions == calls = S3Calls => RegionSizes = <<1024, 2048, 4096>>

C9_Witness == calls = S3Calls /\ slast.op = "Malloc" /\ slast.n = 3000

\* C10: childSize and the Size of every Region never exceed MaxBlockSize
\* (the Scalable is created with a size in 1..MaxBlockSize).
C10_GrowthCapped ==
    /\ sma.childSize <= MaxBlockSize
    /\ \A i \in DOMAIN sma.children : sma.children[i].Size <= MaxBlockSize

\* C11: while only Malloc(MaxBlockSize) has been called on the Scalable, a
\* call never lowers the number of Regions and a Region it adds has size
\* MaxBlockSize.
C11_GrowthByMaxBlockSize ==
    [][(Len(calls') > 1 /\ \A i \in 2..Len(calls') : calls'[i] = MaxBlockSize) =>
          /\ Len(sma'.children) >= Len(sma.children)
          /\ Len(sma'.children) > Len(sma.children) =>
                sma'.children[Len(sma'.children)].Size = MaxBlockSize]_vars

\* The index of the Region of sma that holds the slice mem.
Owner(mem) == CHOOSE i \in DOMAIN sma.children : Inside(mem, sma.children[i])

S4Calls == <<1024, 1024, 2048>>

\* C12: a Free that succeeds removes the owning Region from the list, and
\* recycles it, if and only if the Free leaves that Region entirely free and
\* the Scalable holds more than one Region; the list is never empty; after
\* NewScalable(1024), Malloc(1024), b2 = Malloc(2048), Free(b2) there is
\* exactly 1 Region.
C12_DropIffNotLast ==
    /\ [](Len(sma.children) >= 1)
    /\ [][(slast'.op = "Free" /\ slast'.ok) =>
            LET i == Owner(slast'.mem)
                c == sma.children[i]
                whole == GetFreeSize(c.allocator) + slast'.mem.len = c.Size
            IN  IF whole /\ Len(sma.children) > 1
                  THEN /\ sma'.children = SeqDelete(sma.children, i)
                       /\ c.recycle # "none" =>
                             \E r \in pools'[c.recycle] : r.id = c.id
                ELSE /\ Len(sma'.children) = Len(sma.children)
                     /\ whole <=> GetFreeSize(sma'.children[i].allocator) = c.Size
                     /\ pools' = pools]_vars
    /\ [][(calls = S4Calls /\ slast'.op = "Free" /\ slast'.mem = slast.mem) =>
            Len(sma'.children) = 1]_vars

\* After NewScalable(1024), Malloc(1024), b2 = Malloc(2048), Free(b2) dropped
\* the second Region.
C12_Witness ==
    /\ slast.op = "Free"
    /\ slast.ok
    /\ slast.mem.len = 2048
    /\ slast.nchild = 2
    /\ Len(sma.children) = 1
    /\ live = {[ptr |-> sma.children[1].start, len |-> 1024]}


(***************************************************************************)
(* Properties of Free, FreeRest and Read (SpecC).                          *)
(***************************************************************************)
\* C13: Free returns false and changes nothing of the Scalable when the slice
\* starts in no live Region, or starts in a Region and ends after its end;
\* Malloc(n), n > MaxBlockSize, changes nothing of the Scalable and returns a
\* slice that starts in no Region.
C13_ForeignFreeNoEffect ==
    /\ [][(slast'.op = "Free"
             /\ (InNoRegion(slast'.mem) \/ PastRegionEnd(slast'.mem))) =>
            (~slast'.ok /\ sma' = sma /\ pools' = pools)]_vars
    /\ [][(slast'.op = "Malloc" /\ slast'.n > MaxBlockSize) =>
            (sma' = sma /\ pools' = pools /\ InNoRegion(slast'.mem))]_vars

\* Free was called with a slice that starts at the last byte of a live
\* allocation, the last byte of its Region, and ends after it.
C13_Witness ==
    /\ slast.op = "Free"
    /\ ~slast.ok
    /\ PastRegionEnd(slast.mem)
    /\ \E u \in live : u.ptr + u.len = slast.mem.ptr + 1


(***************************************************************************)
(* Properties of Borrow (SpecB).                                           *)
(***************************************************************************)
\* C14: Borrow(n), n <= MaxBlockSize, leaves the free blocks of the Regions
\* that exist when it is called as they are, and returns the slice that a
\* Malloc(n) called right after it returns; Find(n) returns the offset that
\* Allocate(n) returns in the same state of the index.
C14_BorrowIsFind ==
    /\ [](\A i \in DOMAIN sma.children : \A n \in RequestSizes :
             Allocator_Find(sma.children[i].allocator, n)
               = Allocator_Allocate(sma.children[i].allocator, n).offset)
    /\ [][(slast'.op = "Borrow" /\ slast'.n <= MaxBlockSize) =>
            /\ \A i \in DOMAIN sma.children :
                  GetBlocks(sma'.children[i].allocator)
                    = GetBlocks(sma.children[i].allocator)
            /\ slast'.mem # NilSlice
            /\ slast'.mem = Scalable_Malloc(sma', pools', slast'.n, NIL).memory]_vars

\* Borrow returned bytes that follow a live allocation in its Region.
C14_Witness ==
    /\ slast.op = "Borrow"
    /\ \E u \in live : u.ptr + u.len = slast.mem.ptr


\* C15: between two calls of Malloc, Borrow and Free, the bytes in use,
\* totalMalloc - totalFree, are the sizes of the live Regions minus their
\* free sizes.
C15_QuiescentConservation ==
    InUse(sma) = SumSeq(RegionSizes) - SumSeq(RegionFree)


\* The free block [Start, End) lies within a free block of the Region c.
WithinFree(Start, End, c) ==
    \E b \in Range(GetBlocks(c.allocator)) : b.Start <= Start /\ End <= b.End

\* C16: FreeRest(&s, keep) on a live slice s of a Region.  With keep < len(s):
\* s becomes its first keep bytes, the bytes in use drop by len(s) - keep, and
\* the owning Region gains exactly the bytes s[keep:] as free bytes (it is
\* dropped if that leaves it entirely free and it is not the only Region).
\* With keep >= len(s) nothing changes.
C16_FreeRest ==
    [][slast'.op = "FreeRest" =>
          LET u == CHOOSE v \in live : v.ptr = slast'.mem.ptr
              keep == slast'.n
              i == Owner(u)
              c == sma.children[i]
              off == u.ptr - c.start
          IN  IF keep < u.len
                THEN /\ slast'.mem = [ptr |-> u.ptr, len |-> keep]
                     /\ live' = (live \ {u}) \cup (IF keep > 0 THEN {slast'.mem} ELSE {})
                     /\ InUse(sma') = InUse(sma) - (u.len - keep)
                     /\ IF Len(sma'.children) = Len(sma.children)
                          THEN /\ \A j \in DOMAIN sma.children :
                                     j # i => sma'.children[j] = sma.children[j]
                               /\ GetFreeSize(sma'.children[i].allocator)
                                    = GetFreeSize(c.allocator) + (u.len - keep)
                               /\ WithinFree(off + keep, off + u.len, sma'.children[i])
                               /\ \A b \in Range(GetBlocks(c.allocator)) :
                                     WithinFree(b.Start, b.End, sma'.children[i])
                        ELSE /\ sma'.children = SeqDelete(sma.children, i)
                             /\ GetFreeSize(c.allocator) + (u.len - keep) = c.Size
              ELSE /\ slast'.mem = u
                   /\ sma' = sma
                   /\ pools' = pools
                   /\ live' = live]_vars

\* FreeRest kept the first 1024 bytes of a slice of 3000 bytes that another
\* live slice follows.
C16_Witness ==
    /\ slast.op = "FreeRest"
    /\ slast.n = 1024
    /\ slast.mem.len = 1024
    /\ \E v \in live : v.ptr = slast.mem.ptr + 3000


\* C17: Read(reader, n), 1 <= n <= MaxBlockSize.  If the reader returns
\* (k, nil), 0 <= k <= n, the result is the first k bytes of the allocation
\* and the bytes in use grow by k; if the reader returns an error, the bytes
\* in use are what they were before the call.
C17_ReadAccounting ==
    [][(slast'.op = "Read" /\ slast'.n <= MaxBlockSize) =>
          IF slast'.ok
            THEN /\ slast'.mem.len = slast'.k
                 /\ InUse(sma') = InUse(sma) + slast'.k
                 /\ SumSeq([i \in DOMAIN sma'.children |-> sma'.children[i].Size])
                      - SumSeq([i \in DOMAIN sma'.children |->
                                  GetFreeSize(sma'.children[i].allocator)])
                      = InUse(sma')
                 /\ slast'.k > 0 =>
                       /\ \E i \in DOMAIN sma'.children :
                             Inside(slast'.mem, sma'.children[i])
                       /\ \A u \in live : Disjoint(u, slast'.mem)
          ELSE /\ InUse(sma') = InUse(sma)
               /\ SumSeq([i \in DOMAIN sma'.children |-> sma'.children[i].Size])
                    - SumSeq([i \in DOMAIN sma'.children |->
                                GetFreeSize(sma'.children[i].allocator)])
                    = InUse(sma')]_vars

\* The reader returned 1024 of 3000 bytes without error and the Read added a
\* Region.
C17_Witness ==
    /\ slast.op = "Read"
    /\ slast.ok
    /\ slast.n = 3000
    /\ slast.k = 1024
    /\ Len(sma.children) > slast.nchild
    /\ live # {slast.mem}


(***************************************************************************)
(* Properties of the RecyclableMemory (SpecR).                             *)
(***************************************************************************)
\* C18: after Recycle the buffer has no segment, Size is 0 and no index is
\* recorded; a Recycle of an empty buffer, and a Recycle that directly
\* follows a Recycle, change neither the Recyclable nor the Scalable.
C18_RecycleEmpties ==
    [][rlog'.op = "Recycle" =>
          /\ rm'.Buffers = <<>>
          /\ rm'.Size = 0
          /\ rm'.recycleIndexes.elems = <<>>
          /\ (rm.Buffers = <<>> \/ rlog.op = "Recycle") =>
                (rm' = rm /\ sma' = sma /\ pools' = pools)]_vars

\* Recycle, with recorded indexes, passed two segments to Free.
C18_Witness ==
    /\ rlog.op = "Recycle"
    /\ ~rm.recycleIndexes.nil
    /\ Len(rlog.freed) >= 2


\* The indexes, counted from 0 and in order, of the segments at the Recycle
\* that is the step, each once.
AllSegments == [i \in 1..Len(rm.Buffers) |-> i - 1]

ByRecyclable(j) == rlog.kinds[j + 1].by \in {"NextN", "AddRecycleBytes"}

ByRecyclableIndexed(j) == ByRecyclable(j) /\ rlog.kinds[j + 1].indexed

C20_RecycleReleasesAll ==
    [][rlog'.op = "Recycle" => InUse(sma') = rlog.base]_vars

(***************************************************************************)
(* Properties of the Buddy (SpecBd).                                       *)
(***************************************************************************)
\* C21: once every successful Alloc has been followed by Free of the offset
\* it returned, in any order and interleaved with other allocations, the
\* whole longests array equals its initial contents, and longests[0] the
\* number of leaves.
C21_BuddyRoundTrip ==
    blive = {} =>
        /\ bd.longests = NewBuddy.longests
        /\ bd.longests[0] = bd.size

\* The last of the allocations is freed, and it was not at offset 0: others
\* have been made and freed before it.
C21_Witness ==
    /\ blive = {}
    /\ blast.op = "Free"
    /\ blast.err = "nil"
    /\ blast.offset = bd.size - 1

\* The size in units of node i of the tree, and the offset of its first unit.
RECURSIVE NodeSize(_)
NodeSize(i) == IF i = 0 THEN bd.size ELSE NodeSize(parent(i)) \div 2

NodeOffset(i) == (i + 1) * NodeSize(i) - bd.size

\* The nodes of the tree under node i, i included.
RECURSIVE Under(_)
Under(i) ==
    IF leftChild(i) \in DOMAIN bd.longests
      THEN {i} \cup Under(leftChild(i)) \cup Under(rightChild(i))
    ELSE {i}

\* The smallest power of two >= n, for 1 <= n <= 2 * bd.size.
RoundUp(n) == SetMin({NodeSize(i) : i \in {j \in DOMAIN bd.longests : NodeSize(j) >= n}}
                       \cup {2 * bd.size})

\* The units of the allocation u, and of node i.
UnitsOf(u) == u.off..(u.off + RoundUp(u.n) - 1)

NodeUnits(i) == NodeOffset(i)..(NodeOffset(i) + NodeSize(i) - 1)

\* Node i is the block of a live allocation.
AllocatedAt(i) ==
    \E u \in blive : u.off = NodeOffset(i) /\ RoundUp(u.n) = NodeSize(i)

\* Node i overlaps no live allocation.
NodeFree(i) == \A u \in blive : UnitsOf(u) \cap NodeUnits(i) = {}

\* The size of the largest aligned block under node i that overlaps no live
\* allocation, 0 when there is none.
LargestFree(i) ==
    LET sizes == {NodeSize(j) : j \in {k \in Under(i) : NodeFree(k)}}
    IN  IF sizes = {} THEN 0 ELSE CHOOSE x \in sizes : \A y \in sizes : y <= x

\* A free aligned block of the size that Alloc(n) rounds n to exists.
FreeBlockFor(n) ==
    \E i \in DOMAIN bd.longests :
        NodeSize(i) >= n /\ NodeSize(i) \div 2 < n /\ NodeFree(i)

BelowAllocated(i) == \E j \in DOMAIN bd.longests : j # i /\ AllocatedAt(j) /\ i \in Under(j)

NodeAt(off, r) == {i \in DOMAIN bd.longests : NodeOffset(i) = off /\ NodeSize(i) = r}

\* C23: an allocation made by a successful Alloc(n) has r units reserved,
\* r being the smallest power of two >= n, at an offset that is a multiple of
\* r with offset + r <= the number of leaves, and its units are units of no
\* other live allocation.
C23_AllocBlock ==
    \A u \in blive :
        /\ u.off % RoundUp(u.n) = 0
        /\ u.off + RoundUp(u.n) <= bd.size
        /\ \E i \in NodeAt(u.off, RoundUp(u.n)) : bd.longests[i] = 0
        /\ \A v \in blive \ {u} : UnitsOf(u) \cap UnitsOf(v) = {}

\* Alloc has just succeeded for a size that is no power of two, next to an
\* allocation that is live.
C23_Witness ==
    /\ blast.op = "Alloc"
    /\ blast.err = "nil"
    /\ ~isPowerOf2(blast.n)
    /\ blast.offset > 0
    /\ Cardinality(blive) >= 2

\* C24: error outcomes leave the Buddy untouched: Alloc(n) with n <= 0 returns
\* InValidParameterErr, Alloc whose rounded size exceeds longests[0] returns
\* NotFoundErr (longests[0] being 0 or a power of two, the rounded size
\* exceeds it exactly when n does), Free(offset) with offset < 0 or
\* offset >= the number of leaves returns InValidParameterErr, and in each
\* case longests is unchanged.
C24_ErrorOutcomes ==
    /\ (blast.op = "Alloc" /\ blast.n <= 0) =>
           (blast.err = "InValidParameterErr" /\ bd.longests = blast.before)
    /\ (blast.op = "Alloc" /\ blast.n > blast.before[0]) =>
           (blast.err = "NotFoundErr" /\ bd.longests = blast.before)
    /\ (blast.op = "Free" /\ (blast.offset < 0 \/ blast.offset >= bd.size)) =>
           (blast.err = "InValidParameterErr" /\ bd.longests = blast.before)

(***************************************************************************)
(* Properties of the Buddy shared by threads (SpecBc).                     *)
(***************************************************************************)
\* C25: when several threads call Alloc and Free on one Buddy, each freeing
\* only offsets it was given, the unit ranges of the live allocations are
\* pairwise disjoint in every reachable state, and once all threads have
\* freed everything and returned, longests equals its initial contents.
C25_ConcurrentBuddy ==
    /\ \A u, v \in blive : u # v => UnitsOf(u) \cap UnitsOf(v) = {}
    /\ (blive = {} /\ \A t \in Threads : bpc[t] = "idle") =>
           bd.longests = NewBuddy.longests

\* Two threads hold allocations; one of them is in Alloc with the lock while
\* the other one, in Alloc too, waits for the lock.
C25_Witness ==
    \E t1, t2 \in Threads :
        /\ t1 # t2
        /\ bpc[t1] = "alloc_mark"
        /\ bpc[t2] = "alloc_lock"
        /\ \E u, v \in blive : u.by = t1 /\ v.by = t2

(***************************************************************************)
(* Properties of the buddy-backed region factory (SpecF).                  *)
(***************************************************************************)
\* size / 2^MinPowerOf2 rounded up.
CeilUnits(size) == (size + (2 ^ MinPowerOf2) - 1) \div (2 ^ MinPowerOf2)

\* The units of the buddy block that backs the Region ma: those of the node
\* that its recycle function frees.
BlockUnits(ma) ==
    LET b == bds[ma.recycle.buddy]
    IN  FreeClimb(b, (ma.recycle.offset \div (2 ^ MinPowerOf2)) + b.size - 1, 1).nodeSize

\* The addresses of the slab of the Region ma.
SlabOf(ma) == ma.start..(ma.start + ma.Size - 1)

\* C26: a Region of size bytes made by the buddy-backed factory is backed by
\* a buddy block of at least ceil(size / 2^MinPowerOf2) units, its bytes lie
\* inside that block, and two live Regions share no byte.
C26_RegionInsideBlock ==
    \A ma \in fregs :
        /\ BlockUnits(ma) >= CeilUnits(ma.Size)
        /\ ma.Size <= BlockUnits(ma) * (2 ^ MinPowerOf2)
        /\ \A other \in fregs \ {ma} : SlabOf(ma) \cap SlabOf(other) = {}

\* C27: GetMemoryAllocator(size) returns for every size with
\* 1 <= size < BuddySize.  A Buddy is put back only when the call returns, so
\* the loop tries every Buddy of the pool at most once; a Buddy that
\* buddyPool.New has just made serves the size or no Buddy ever does: the
\* call returns iff the loop never holds more failed Buddies than the pool
\* held when it was called, plus one.
C27_FactoryReturns ==
    gcall.pc = "loop" => Len(gcall.deferred) <= gcall.pooled + 1

(***************************************************************************)
(* Properties of the pooled region factory (SpecP).                        *)
(***************************************************************************)
\* The Region ma has Size size and the single free block [0, size).
FreshRegion(ma, size) ==
    /\ ma.Size = size
    /\ GetBlocks(ma.allocator) = <<[Start |-> 0, End |-> size]>>

\* The sizes of Regions asked of GetMemoryAllocator: those of the three pools
\* and one that has no pool.
RegionSizesAsked == {2 ^ MinPowerOf2, 3000, 2 ^ (MinPowerOf2 + 2), defaultBufSize}

\* C28: every Region that GetMemoryAllocator(size) returns has Size = size and
\* a free index of exactly one block [0, size), whether pool.New makes it or
\* the pool hands out a Region that a Scalable has recycled, also while it
\* had outstanding allocations or several free blocks: so is the Region of a
\* Scalable just made, and so is the Region that GetMemoryAllocator would
\* return in any reachable state of the pools.
C28_RegionFresh ==
    /\ slast.op = "New" => FreshRegion(sma.children[1], slast.n)
    /\ \A size \in RegionSizesAsked : \A pick \in GetChoices(pools, size) :
           FreshRegion(GetMemoryAllocator(size, sma, pools, pick).ret, size)

\* NewScalableMemoryAllocator got from the pool the Region that the Recycle
\* just before it had put there, fragmented and with slices outstanding.
C28_Witness ==
    /\ slast.op = "New"
    /\ slast.ok
    /\ slast.k > 0
    /\ slast.mem.ptr = sma.children[1].start
    /\ slast.mem.len = slast.n

(***************************************************************************)
(* Order of Free (Spec).                                                   *)
(***************************************************************************)
\* sma.Free(u) followed by sma.Free(v), from the current state.
FreeNext(f, v) == Scalable_Free(f.sma, f.pools, v)

FreeBoth(u, v) == TheOne({FreeNext(f, v) : f \in {Scalable_Free(sma, pools, u)}})

\* The free blocks of the Regions of s whose slabs start at an address of
\* starts, as address ranges.
FreeBlocksIn(s, starts) ==
    UNION {{[from |-> s.children[i].start + b.Start, to |-> s.children[i].start + b.End] :
               b \in Range(GetBlocks(s.children[i].allocator))} :
           i \in {j \in DOMAIN s.children : s.children[j].start \in starts}}

StartsOf(s) == {s.children[i].start : i \in DOMAIN s.children}

FreeBlocksOf(s) == FreeBlocksIn(s, StartsOf(s))

\* The Scalables s and t have the same free blocks and the same bytes in use.
SameFree(s, t) == FreeBlocksOf(s) = FreeBlocksOf(t) /\ InUse(s) = InUse(t)

\* The live slices that lie in a Region, and the places where one is cut.
RegionSlices == {u \in live : u.ptr >= Stride}

CutsOf(u) == {c \in Cuts : c < u.len}

\* Freeing u in two pieces cut at c, in either order, is as freeing u whole.
PiecewiseAsWhole(u, c) ==
    /\ SameFree(FreeBoth(SubSlice(u, 0, c), SubSlice(u, c, u.len)).sma,
                Scalable_Free(sma, pools, u).sma)
    /\ SameFree(FreeBoth(SubSlice(u, c, u.len), SubSlice(u, 0, c)).sma,
                Scalable_Free(sma, pools, u).sma)

\* C29 as stated: from every state, freeing two live allocations in one
\* order or in the other, and freeing an allocation in two pieces (in either
\* order) or whole, leaves the same set of free blocks and the same bytes in
\* use; orders and partitions of more allocations and pieces follow, every
\* state in between being a reachable state.
C29_FreeOrderIndependent ==
    /\ \A u, v \in RegionSlices :
           u # v => SameFree(FreeBoth(u, v).sma, FreeBoth(v, u).sma)
    /\ \A u \in RegionSlices : \A c \in CutsOf(u) : PiecewiseAsWhole(u, c)

\* The Scalables s and t have the same bytes in use, and the same free blocks
\* in the Regions that both of them hold.
SameFreeInCommon(s, t) ==
    /\ InUse(s) = InUse(t)
    /\ FreeBlocksIn(s, StartsOf(s) \cap StartsOf(t))
         = FreeBlocksIn(t, StartsOf(s) \cap StartsOf(t))

\* C29 amended: freeing an allocation in two pieces, in either order, leaves
\* the same free blocks and bytes in use as freeing it whole; freeing two
\* allocations in one order or in the other leaves the same bytes in use and
\* the same free blocks in every Region that both orders keep, and the same
\* free blocks altogether when they keep the same Regions.
C29_FreeOrder ==
    /\ \A u, v \in RegionSlices :
           u # v =>
             /\ SameFreeInCommon(FreeBoth(u, v).sma, FreeBoth(v, u).sma)
             /\ StartsOf(FreeBoth(u, v).sma) = StartsOf(FreeBoth(v, u).sma)
                  => SameFree(FreeBoth(u, v).sma, FreeBoth(v, u).sma)
    /\ \A u \in RegionSlices : \A c \in CutsOf(u) : PiecewiseAsWhole(u, c)

\* Two slices of one Region are live, next to each other, and one more that
\* can be cut: the order of their Free decides which blocks coalesce first.
C29_Witness ==
    /\ \E u, v \in RegionSlices : u.ptr + u.len = v.ptr
    /\ \E u \in RegionSlices : CutsOf(u) # {}
    /\ slast.op = "Free"

(***************************************************************************)
(* Properties of the MemoryReader (SpecM).                                 *)
(***************************************************************************)
\* The buffer of scenario S7.
S7Buffers == <<<<1, 2, 3>>, <<4, 5, 6>>>>

\* C30: the bytes that the Read calls on NewReader(B) have returned so far
\* are the first bytes of B.ToBytes(), as many as have been consumed; Read
\* returns (0, EOF) exactly when no unread byte was left, all of B.ToBytes()
\* having been returned by then, and returns at least one byte otherwise; the
\* segments {1,2,3},{4,5,6} read into a buffer of 6 bytes give 6 and no error.
C30_ReaderRoundTrip ==
    /\ mout = SubSeq(Memory_ToBytes(mr), 1, mr.Size - mr.Length)
    /\ mlast.op = "Read" =>
         /\ mlast.err \in {"nil", "EOF"}
         /\ mlast.err = "EOF" <=> mlast.before = 0
         /\ mlast.err = "EOF" => (mlast.actual = 0 /\ mout = Memory_ToBytes(mr))
         /\ mlast.err = "nil" => (mlast.actual >= 1 /\ mlast.actual <= mlast.n)
         /\ (mr.Buffers = S7Buffers /\ mlast.reads = 1 /\ mlast.n = 6) =>
                (mlast.actual = 6 /\ mlast.err = "nil" /\ mr.Length = 0)

\* Read has returned EOF on a buffer of three segments, one of them empty,
\* after three Read calls or more that returned the bytes.
C30_Witness ==
    /\ mlast.op = "Read"
    /\ mlast.err = "EOF"
    /\ mlast.reads >= 4
    /\ Len(mr.Buffers) = 3
    /\ \E i \in 1..3 : mr.Buffers[i] = <<>>
    /\ mr.Size >= 5


(***************************************************************************)
(* Properties of MemoryReader.Skip (SpecK).                                *)
(***************************************************************************)
\* C31: Skip(n) with 1 <= n <= Length returns nil, takes exactly n from
\* Length and leaves the reader at the byte n positions after the one it was
\* at, which is the byte that the next ReadByte returns; Skip(n) with
\* n > Length returns EOF and leaves the reader as it was.
C31_SkipAdvances ==
    [][mlast'.op = "Skip" =>
         /\ (mlast'.n >= 1 /\ mlast'.n <= mr.Length) =>
              /\ mlast'.err = "nil"
              /\ mr'.Length = mr.Length - mlast'.n
              /\ mr'.Length > 0 =>
                   /\ MemoryReader_ReadByte(mr').err = "nil"
                   /\ MemoryReader_ReadByte(mr').b =
                          Memory_ToBytes(mr)[mr.Size - mr.Length + mlast'.n + 1]
         /\ mlast'.n > mr.Length => (mlast'.err = "EOF" /\ mr' = mr)]_vars


(***************************************************************************)
(* Properties of Memory (SpecW).                                           *)
(***************************************************************************)
\* C32: after any sequence of NewMemory, PushOne, Push, Append, UpdateBuffer
\* and Reset, Size is the sum of the lengths of the segments in Buffers.
C32_SizeIsSum == rm.Size = SumSeq([i \in DOMAIN rm.Buffers |-> rm.Buffers[i].len])


(***************************************************************************)
(* Properties of the two Allocators given the same calls (SpecT).          *)
(***************************************************************************)
\* C33: started from NewAllocator(size) and given the same Allocate, Find
\* and Free calls, the Allocator of allocator.go and the Allocator of
\* allocator_2tree.go return the same offset (or NONE) at every call and have
\* the same GetBlocks() and the same GetFreeSize().
C33_SameAsTwoTree ==
    /\ last.ret = last2.ret
    /\ GetBlocks(al) = GetBlocks2(al2)
    /\ GetFreeSize(al) = GetFreeSize2(al2)


(***************************************************************************)
(* Properties of a second Free (SpecD).                                    *)
(***************************************************************************)
\* C34: Free of a slice of a live Region of which no byte is allocated, such
\* as a second Free of the same slice, returns false and changes neither
\* totalFree nor the free blocks of any Region.
C34_DoubleFreeDetected ==
    [][(slast'.op = "Free" /\ NotAllocated(slast'.mem)) =>
          /\ ~slast'.ok
          /\ sma'.totalFree = sma.totalFree
          /\ sma'.children = sma.children]_vars


(***************************************************************************)
(* Properties of the scan of Malloc (Spec).                                *)
(***************************************************************************)
\* Region i of the Scalable s has a free block of n bytes or more.
HasFreeBlock(s, i, n) ==
    \E j \in DOMAIN GetBlocks(s.children[i].allocator) :
        GetBlocks(s.children[i].allocator)[j].End
          - GetBlocks(s.children[i].allocator)[j].Start >= n

\* The first value that is >= n or >= MaxBlockSize among those reached by
\* doubling childSize again and again.
DoubledFor(childSize, n) ==
    LET first == IF childSize < MaxBlockSize THEN 1 ELSE 0
        k == CHOOSE k \in first..30 :
                 /\ childSize * (2 ^ k) >= n \/ childSize * (2 ^ k) >= MaxBlockSize
                 /\ \A h \in first..(k - 1) :
                        childSize * (2 ^ h) < n /\ childSize * (2 ^ h) < MaxBlockSize
    IN  childSize * (2 ^ k)

\* C35: Malloc(n), n <= MaxBlockSize, takes the memory from the first Region,
\* in the order of the Region list, that has a free block of n bytes or more,
\* and leaves the other Regions as they are; it adds a Region only when no
\* Region has such a block, and the size of that Region is the first value
\* >= n or >= MaxBlockSize reached by doubling the growth size.
C35_FirstRegionWithRoom ==
    [][(slast'.op = "Malloc" /\ slast'.n <= MaxBlockSize) =>
          LET n == slast'.n
              room == {i \in DOMAIN sma.children : HasFreeBlock(sma, i, n)}
              count == Len(sma.children)
          IN  IF room # {}
                THEN /\ Len(sma'.children) = count
                     /\ \A i \in DOMAIN sma.children :
                            i # SetMin(room) => sma'.children[i] = sma.children[i]
                     /\ slast'.mem.ptr >= sma.children[SetMin(room)].start
                     /\ slast'.mem.ptr + n <= sma.children[SetMin(room)].start
                                                + sma.children[SetMin(room)].Size
              ELSE /\ Len(sma'.children) = count + 1
                   /\ \A i \in DOMAIN sma.children : sma'.children[i] = sma.children[i]
                   /\ sma'.children[count + 1].Size = DoubledFor(sma.childSize, n)]_vars


(***************************************************************************)
(* Properties of the choice of Alloc and of Free (SpecBd).                 *)
(***************************************************************************)
\* The offsets of the aligned blocks of r units that overlap none of the
\* allocations in others.
Candidates(r, others) ==
    {NodeOffset(i) :
        i \in {j \in DOMAIN bd.longests :
                  /\ NodeSize(j) = r
                  /\ \A u \in others : UnitsOf(u) \cap NodeUnits(j) = {}}}

\* C36: the offset that a successful Alloc(n) returns is the smallest offset
\* of an aligned block of the rounded size that overlapped no live allocation
\* when Alloc was called.
C36_LowestOffset ==
    (blast.op = "Alloc" /\ blast.err = "nil") =>
        blast.offset =
            SetMin(Candidates(RoundUp(blast.n), {u \in blive : u.off # blast.offset}))

\* Alloc has just taken a block below a live allocation while a block of
\* that size above it was free too.
C36_Witness ==
    /\ blast.op = "Alloc"
    /\ blast.err = "nil"
    /\ \E u \in blive : u.off > blast.offset
    /\ \E c \in Candidates(RoundUp(blast.n), blive) : c > blast.offset


\* longests is what the live allocations make it: 0 for a node allocated as
\* a block, the node's own size strictly below such a node, and otherwise the
\* size of the largest aligned block under the node that overlaps no live
\* allocation.
LongestsOfLive ==
    \A i \in DOMAIN bd.longests :
        bd.longests[i] = IF AllocatedAt(i) THEN 0
                         ELSE IF BelowAllocated(i) THEN NodeSize(i)
                         ELSE LargestFree(i)

\* C37: Free(offset), 0 <= offset < size, releases a block only when offset
\* is the first unit of a live allocation, and then exactly the block of that
\* allocation; for every other offset (never allocated, freed already, or
\* inside a live block but not its first unit) it returns an error and leaves
\* longests as it is.
C37_FreeOnlyAtStart ==
    [][(blast'.op = "Free" /\ blast'.offset >= 0 /\ blast'.offset < bd.size) =>
          IF \E u \in blive : u.off = blast'.offset
            THEN /\ blast'.err = "nil"
                 /\ blive' = {u \in blive : u.off # blast'.offset}
                 /\ LongestsOfLive'
          ELSE /\ blast'.err # "nil"
               /\ bd'.longests = bd.longests]_vars


(***************************************************************************)
(* Properties of the shape of the tree of the Allocator (SpecA).           *)
(***************************************************************************)
\* The blocks of the tree of al.
InTree == {Walk(al, al.sizeTree)[i] : i \in DOMAIN Walk(al, al.sizeTree)}

\* The tree is a binary search tree by Start.
SearchTreeByStart ==
    \A i \in 1..(Len(Walk(al, al.sizeTree)) - 1) :
        al.blk[Walk(al, al.sizeTree)[i]].Start < al.blk[Walk(al, al.sizeTree)[i + 1]].Start

\* The parent links are those of the tree.
ParentLinks ==
    /\ al.sizeTree # NIL => al.blk[al.sizeTree].parent = NIL
    /\ \A b \in InTree :
          /\ al.blk[b].left # NIL => al.blk[al.blk[b].left].parent = b
          /\ al.blk[b].right # NIL => al.blk[al.blk[b].right].parent = b

\* No node holds a smaller block than its parent.
HeapBySize ==
    \A b \in InTree :
        al.blk[b].parent # NIL => BlockSize(al, b) >= BlockSize(al, al.blk[b].parent)

\* C38: after every Allocate and Free the tree of the Allocator is a binary
\* search tree by Start with consistent parent links in which no node holds a
\* smaller block than its parent.
C38_TreapShape == SearchTreeByStart /\ ParentLinks /\ HeapBySize


(***************************************************************************)
(* Properties of the recycling of Regions (SpecP).                         *)
(***************************************************************************)
\* The ids of the Regions of the list of s.
ChildIds(s) == {s.children[i].id : i \in DOMAIN s.children}

\* The Regions with this id that a pool keeps.
Pooled(pl, id) == UNION {{r \in pl[p] : r.id = id} : p \in PoolNames}

\* The list holds each Region once, no Region of the list is in a pool, no
\* pool keeps a Region twice, and Recycle on an empty list recycles nothing.
HeldOrPooled ==
    /\ \A i, j \in DOMAIN sma.children :
          sma.children[i].id = sma.children[j].id => i = j
    /\ \A id \in ChildIds(sma) : Pooled(pools, id) = {}
    /\ \A id \in 1..(MaxCalls + 2) : Cardinality(Pooled(pools, id)) <= 1
    /\ sma.children = <<>> => Scalable_Recycle(sma, pools).pools = pools

\* A pool receives only Regions that the step drops from the list, and each
\* Region of a pool that the step drops from the list is in its pool once.
RecycledWhenDropped ==
    /\ \A p \in PoolNames : \A r \in pools'[p] \ pools[p] :
          r.id \in ChildIds(sma) \ ChildIds(sma')
    /\ \A i \in DOMAIN sma.children :
          (sma.children[i].id \notin ChildIds(sma') /\ sma.children[i].recycle # "none")
            => /\ Cardinality(Pooled(pools', sma.children[i].id)) = 1
               /\ Pooled(pools', sma.children[i].id) \subseteq pools'[sma.children[i].recycle]

\* C39: each Region that a Scalable held is recycled at most once: Free drops
\* the Region it recycles from the list, Recycle recycles each Region of the
\* list once and clears the list, a second Recycle recycles nothing, and no
\* Region is returned to a pool twice.
C39_RecycledOnce == []HeldOrPooled /\ [][RecycledWhenDropped]_vars

\* Recycle has returned two Regions to the pools and has cleared the list.
C39_Witness ==
    /\ slast.op = "Recycle"
    /\ slast.nchild >= 2
    /\ sma.children = <<>>
    /\ \E p \in PoolNames : pools[p] # {}

=============================================================================
